---- MODULE Spec2Model ----
(***************************************************************************)
(* A model of the MuseTalk unified polling worker (src/unified_worker.py). *)
(*                                                                         *)
(* Two threads share one process:                                          *)
(*   - the control loop, main(), which claims a job, marks WORKER_STATE    *)
(*     busy, runs process_job and marks WORKER_STATE idle again;           *)
(*   - the heartbeat thread, heartbeat_loop(), which reads WORKER_STATE    *)
(*     under STATE_LOCK and posts it to the orchestrator.                  *)
(*                                                                         *)
(* Every statement that another thread can observe is one step: each       *)
(* dictionary write and read under STATE_LOCK, the acquisition and the     *)
(* release of the lock, the start of a network call and its outcome, the   *)
(* end of a sleep.  Outcomes of network calls are chosen with \E.          *)
(***************************************************************************)
EXTENDS Integers, Sequences, FiniteSets

(* ---------------------------------------------------------------- bounds *)

\* Job identifiers the orchestrator hands out are 1..MaxJobId.
MaxJobId == 2

\* Polls of the timed scenario: the clock stops after MaxPolls poll intervals.
MaxPolls == 10

\* Lines of the inference output that are read.
MaxLines == 4

(* ------------------------------------------------------- program values *)

\* current_job_id of an idle worker (Python None).
None == 0

\* for attempt in range(3)
MaxAttempts == 3

\* POLL_INTERVAL_SEC default
POLL_INTERVAL == 5

\* time.sleep(5) of the heartbeat loop
HEARTBEAT_INTERVAL == 5

JobIds == 1..MaxJobId

\* main's local `job` when claim_job returned None.
NoJob == [present |-> FALSE, has_id |-> FALSE, musetalk_job_id |-> None, has_urls |-> FALSE]

\* The job dictionaries a claim can return: a well-formed job, a job whose
\* video_url/audio_url keys are absent, and a job with no musetalk_job_id.
Jobs ==
    {[present |-> TRUE, has_id |-> TRUE, musetalk_job_id |-> i, has_urls |-> u] :
        i \in JobIds, u \in BOOLEAN}
    \cup {[present |-> TRUE, has_id |-> FALSE, musetalk_job_id |-> None, has_urls |-> TRUE]}

\* What one claim request can end in (claim_job, lines 167-190).
ClaimFailures == {"non200", "error_body", "job_null"}
ClaimExceptions == {"transport_exc", "other_exc"}

\* What one progress report request can end in (report_progress, lines 220-229).
ReportOutcomes == {"ok", "non200", "transport_exc", "other_exc"}

\* What the local /generate call can end in (process_job, lines 262-297).
GenOutcomes == {"succeeded", "failed_status", "non200", "exception"}

\* result.get("output_url") and result.get("metrics") of a 200 answer; "none"
\* is an absent field (Python None).
OutputUrls == {"none", "https://x/y.mp4"}
MetricsValues == {"none", "metrics"}

\* result.get("error") and result.get("error_message") of a 200 answer whose
\* status is not a success status: absent ("none"), empty, or a text.
ErrorTexts == {"none", "", "CUDA out of memory"}
ErrorMessages == {"none", "bad media"}

\* Values that are false in `a or b or c` (line 282): None and "".
Falsy == {"none", ""}

\* What client.post can raise for the local endpoint: it cannot be reached,
\* it does not answer within timeout=600.0, or something else goes wrong.
GenExceptions == {"ConnectError", "ReadTimeout", "ValueError"}

\* No /generate call has ended for the current job.
NoResp ==
    [outcome |-> "none", output_url |-> "none", metrics |-> "none",
     error |-> "none", error_message |-> "none", status_code |-> "none",
     error_type |-> "none", stage |-> "none", retryable |-> "none",
     fits |-> 0, exc |-> "none"]

\* The non-200 answers: the structured failure bodies of /generate
\* (worker_app/main.py, 1069-1133) and an answer with no structure at all.
\* `fits` is the number of the body's values, in the order of BodyText, that
\* lie within the first 200 characters of the body's text: the media error's
\* message holds the input's URL and can be short or long, and a stack trace
\* comes before the retryable flag.
FailureBodies ==
    {[NoResp EXCEPT !.outcome = "non200", !.status_code = "422",
         !.error_type = "media_error", !.error_message = "bad media",
         !.stage = "download", !.retryable = "false", !.fits = f] : f \in {2, 4}}
    \cup {[NoResp EXCEPT !.outcome = "non200", !.status_code = "500",
         !.error_type = "processing_error", !.error_message = "CUDA out of memory",
         !.stage = "inference", !.retryable = "true", !.fits = 3],
       [NoResp EXCEPT !.outcome = "non200", !.status_code = "500",
         !.error_type = "unknown_error", !.error_message = "bad media",
         !.stage = "unknown", !.retryable = "false", !.fits = 3],
       [NoResp EXCEPT !.outcome = "non200", !.status_code = "502", !.fits = 1]}

\* How process_job's try block can end once the request is out: an answer of
\* /generate with the fields process_job reads, or an exception.
GenAnswers ==
    {[NoResp EXCEPT !.outcome = "succeeded", !.status_code = "200",
         !.output_url = u, !.metrics = m] : u \in OutputUrls, m \in MetricsValues}
    \cup {[NoResp EXCEPT !.outcome = "failed_status", !.status_code = "200",
         !.error = e, !.error_message = m] : e \in ErrorTexts, m \in ErrorMessages}
    \cup FailureBodies
    \cup {[NoResp EXCEPT !.outcome = "exception", !.exc = x] : x \in GenExceptions}

\* The answers drawn where the two threads interleave: every success answer,
\* and one answer of each branch of process_job that reports a failure (282,
\* 287, 292).
GenResponses ==
    {r \in GenAnswers :
        \/ r.outcome = "succeeded"
        \/ r.outcome = "failed_status" /\ r.error = "none" /\ r.error_message = "none"
        \/ r.outcome = "non200" /\ r.error_type = "none"
        \/ r.outcome = "exception" /\ r.exc = "ConnectError"}

\* The values of the INTERNAL_API_KEY setting: not set (the default "") or set.
ApiKeys == {"", "secret"}

\* exit_code of a process that has not exited.
Running == -1

\* What one heartbeat request can end in (heartbeat_loop, lines 126-151).
HbOutcomes == {"ok", "non200", "transport_exc", "other_exc"}

VARIABLES
    API_KEY,         \* os.environ.get("INTERNAL_API_KEY", "")
    exit_code,       \* exit status of the process (Running while it runs)
    status,          \* WORKER_STATE["status"]
    current_job_id,  \* WORKER_STATE["current_job_id"]
    STATE_LOCK,      \* holder of the lock: "free", "main" or "hb"
    clpc,            \* control loop: position in main / claim_job / process_job
    job,             \* main's local `job`
    attempt,         \* claim_job's loop variable
    clSleep,         \* seconds of the sleep the control loop is in (0: not sleeping)
    claimSleeps,     \* history: the backoff sleeps of the current claim_job call
    claimPosts,      \* history: claim requests issued by the current claim_job call
    clFaulted,       \* history: the control loop's client raised a transport exception
    genCalls,        \* history: /generate calls made for the current job
    trace,           \* history: reports and /generate calls of the current job
    pjResult,        \* return value of the last process_job
    inFlight,        \* history: ids of jobs claimed whose process_job has not returned
    claimLast,       \* history: how the last claim request of this claim_job call ended
    reportLast,      \* history: how the last report_progress request for this job ended
    genResp,         \* history: what /generate answered for this job
    hbpc,            \* heartbeat thread: position in heartbeat_loop
    current_status,  \* heartbeat_loop's local
    current_job,     \* heartbeat_loop's local
    hbSnap,          \* history: WORKER_STATE at the first read of this heartbeat
    hbReadJob,       \* history: the job being processed at that read (None: none)
    hbFaulted,       \* history: the heartbeat client raised a transport exception
    hbOpen,          \* the heartbeat client exists and is not closed
    hbCreates,       \* history: clients created since the last heartbeat request
    hbLast,          \* history: outcome of the last heartbeat request
    hbSleep,         \* seconds of the sleep the heartbeat thread is in (0: not sleeping)
    now,             \* timed scenario: seconds since both loops started
    tclpc,           \* timed scenario: position of the control loop
    tclLeft,         \* timed scenario: seconds left of the control loop's sleep
    thbpc,           \* timed scenario: position of the heartbeat loop
    thbLeft,         \* timed scenario: seconds left of the heartbeat loop's sleep
    tBeats,          \* timed scenario: heartbeats sent in the current poll interval
    tClaims,         \* timed scenario: claims attempted in the current poll interval
    gen_pc,          \* /generate: position in generate()
    job_id,          \* /generate: req.musetalk_job_id
    gen_check,       \* /generate: what the startup check logged
    gen_started,     \* /generate history: the stages started, in order
    stage_times,     \* /generate: stages whose duration has been recorded
    gen_updates,     \* /generate history: progress updates attempted (hundredths)
    gen_exc,         \* /generate: the exception a stage raised
    gen_result,      \* /generate: what the endpoint returned
    video_path,      \* /generate: local video_path ("none": Python None)
    audio_path,      \* /generate: local audio_path ("none": Python None)
    tmp_files,       \* /generate: the input temp files that exist on disk
    rm_failed,       \* /generate history: paths whose os.remove raised OSError
    par_pc,          \* output parsing: position in _run_musetalk_inference
    par_job_id,      \* output parsing: the job_id argument
    total_frames,    \* output parsing: local total_frames
    processed_frames,        \* output parsing: local processed_frames
    last_reported_progress,  \* output parsing: local, in thousandths
    par_sent,        \* output parsing history: progress updates sent (thousandths)
    par_lines,       \* output parsing: lines of stdout read so far
    dl_pc,           \* download: position in _download_to_temp
    max_retries,     \* download: the max_retries argument
    dl_attempt,      \* download: the loop variable `attempt`
    dl_fails,        \* download history: how each failed httpx attempt ended
    dl_sleeps,       \* download history: the sleeps between attempts, in order
    dl_curls,        \* download history: curl runs
    dl_raised,       \* download: the exception the call raised ("none": none)
    buf_pc,          \* buffer loop: position in _buffer_worker_loop
    buf_status,      \* buffer loop: local `status`
    last_error,      \* buffer loop: local `last_error` ("none": Python None)
    buf_job,         \* buffer loop: local `job`
    job_ok,          \* buffer loop: local `job_ok`
    job_error,       \* buffer loop: local `job_error` ("none": Python None)
    buf_gen,         \* buffer loop history: how the /generate call of this job ended
    buf_trace,       \* buffer loop history: requests sent in the current iteration
    sup_pc,          \* supervisor: position in heartbeat_loop of worker_supervisor
    app_alive,       \* supervisor: app_process.poll() is None
    sup_exit,        \* supervisor: exit status of the supervisor (Running while it runs)
    sup_job,         \* supervisor: local `job`
    sup_trace        \* supervisor history: requests of the last iteration

clVars == <<clpc, job, attempt, clSleep, claimSleeps, claimPosts, clFaulted,
            genCalls, trace, pjResult, inFlight, claimLast, reportLast, genResp>>
hbVars == <<hbpc, current_status, current_job, hbSnap, hbReadJob, hbFaulted,
            hbOpen, hbCreates, hbLast, hbSleep>>
stVars == <<status, current_job_id>>
timeVars == <<now, tclpc, tclLeft, thbpc, thbLeft, tBeats, tClaims>>
pathVars == <<video_path, audio_path, tmp_files, rm_failed>>
genVars == <<gen_pc, job_id, gen_check, gen_started, stage_times, gen_updates,
             gen_exc, gen_result, pathVars>>
parseVars == <<par_pc, par_job_id, total_frames, processed_frames,
               last_reported_progress, par_sent, par_lines>>
\* The parts of worker_app and worker_supervisor modelled on their own.
dlVars == <<dl_pc, max_retries, dl_attempt, dl_fails, dl_sleeps, dl_curls, dl_raised>>
bufVars == <<buf_pc, buf_status, last_error, buf_job, job_ok, job_error, buf_gen, buf_trace>>
supVars == <<sup_pc, app_alive, sup_exit, sup_job, sup_trace>>
auxVars == <<parseVars, dlVars, bufVars, supVars>>
\* What no step of the two loops changes.
envVars == <<API_KEY, exit_code, timeVars, genVars, auxVars>>
vars == <<API_KEY, exit_code, status, current_job_id, STATE_LOCK, clVars, hbVars,
          timeVars, genVars, auxVars>>

\* No exception (worker_app/main.py).
NoExc == [kind |-> "none", stage |-> "none", retryable |-> FALSE]

\* The exception classes of worker_app/main.py (lines 67-103) with the
\* attributes generate() reads; MediaError has no retryable attribute.
MediaErrorAt(st) == [kind |-> "MediaError", stage |-> st, retryable |-> FALSE]
DownloadError == [kind |-> "DownloadError", stage |-> "download", retryable |-> FALSE]
ProcessingErrorAt(st, r) == [kind |-> "ProcessingError", stage |-> st, retryable |-> r]

\* Any exception that is neither a MediaError nor a ProcessingError (an
\* OSError of a full disk, an IndexError, an ImportError).
OtherException == [kind |-> "Exception", stage |-> "none", retryable |-> FALSE]

\* isinstance(exc, MediaError): DownloadError is a subclass (line 86).
IsMediaError(e) == e.kind \in {"MediaError", "DownloadError"}

\* Nothing returned yet.
NoResult ==
    [status_code |-> 0, status |-> "none", error_type |-> "none", stage |-> "none",
     retryable |-> FALSE, stack_trace |-> FALSE, stage_times |-> {}]

\* The endpoint before a request arrives.
GenInit ==
    /\ gen_pc = "idle"
    /\ job_id = ""
    /\ gen_check = "none"
    /\ gen_started = <<>>
    /\ stage_times = {}
    /\ gen_updates = <<>>
    /\ gen_exc = NoExc
    /\ gen_result = NoResult
    /\ video_path = "none"
    /\ audio_path = "none"
    /\ tmp_files = {}
    /\ rm_failed = {}

\* _run_musetalk_inference before the loop over proc.stdout (lines 771-778).
ParseInit ==
    /\ par_pc = "idle"
    /\ par_job_id = ""
    /\ total_frames = None
    /\ processed_frames = 0
    /\ last_reported_progress = 0
    /\ par_sent = <<>>
    /\ par_lines = 0

\* _download_to_temp before it is called.
DlInit ==
    /\ dl_pc = "idle"
    /\ max_retries = 3
    /\ dl_attempt = 0
    /\ dl_fails = <<>>
    /\ dl_sleeps = <<>>
    /\ dl_curls = 0
    /\ dl_raised = "none"

\* No buffer job: data.get("job") is None.
NoBufJob == [present |-> FALSE, has_ids |-> FALSE, has_urls |-> FALSE]

\* _buffer_worker_loop at the top of its first iteration (lines 201-204).
BufInit ==
    /\ buf_pc = "heartbeat"
    /\ buf_status = "idle"
    /\ last_error = "none"
    /\ buf_job = NoBufJob
    /\ job_ok = FALSE
    /\ job_error = "none"
    /\ buf_gen = "none"
    /\ buf_trace = <<>>

\* worker_supervisor at its call of heartbeat_loop() (line 118): the key
\* is set, the app process was started and the 10 s wait is over.
SupInit ==
    /\ sup_pc = "check"
    /\ app_alive = TRUE
    /\ sup_exit = Running
    /\ sup_job = NoBufJob
    /\ sup_trace = <<>>

AuxInit ==
    /\ ParseInit
    /\ DlInit
    /\ BufInit
    /\ SupInit

\* The timed scenario at its start: both loops are about to run their first
\* iteration.
TimeInit ==
    /\ now = 0
    /\ tclpc = "claim" /\ tclLeft = 0
    /\ thbpc = "read" /\ thbLeft = 0
    /\ tBeats = 0 /\ tClaims = 0

clLocals == <<job, attempt, clSleep, claimSleeps, claimPosts, clFaulted, genCalls,
              trace, pjResult, inFlight, claimLast, reportLast, genResp>>

hbLocals == <<current_status, current_job, hbSnap, hbReadJob, hbFaulted, hbOpen,
              hbCreates, hbLast, hbSleep>>

\* The control loop is inside process_job for `job` with the busy write done.
ProcessingPcs == {"pj_start", "pj_start_wait", "pj_gen_body", "gen_wait", "pj_term_wait"}

Init ==
    /\ API_KEY = "secret"
    /\ exit_code = Running
    /\ status = "idle"
    /\ current_job_id = None
    /\ STATE_LOCK = "free"
    /\ clpc = "client_new"
    /\ job = NoJob
    /\ attempt = 0
    /\ clSleep = 0
    /\ claimSleeps = <<>>
    /\ claimPosts = 0
    /\ clFaulted = FALSE
    /\ genCalls = 0
    /\ trace = <<>>
    /\ pjResult = FALSE
    /\ inFlight = {}
    /\ claimLast = "none"
    /\ reportLast = "none"
    /\ genResp = NoResp
    /\ hbpc = "hb_client_new"
    /\ current_status = "idle"
    /\ current_job = None
    /\ hbSnap = <<"idle", None>>
    /\ hbReadJob = None
    /\ hbFaulted = FALSE
    /\ hbOpen = FALSE
    /\ hbCreates = 0
    /\ hbLast = "none"
    /\ hbSleep = 0
    /\ TimeInit
    /\ GenInit
    /\ AuxInit

(* -------------------------------------------------------------- startup *)

\* The process at the entry of main(): WORKER_STATE as the module defines it,
\* no thread started, INTERNAL_API_KEY set or not.
BootInit ==
    /\ API_KEY \in ApiKeys
    /\ exit_code = Running
    /\ status = "idle"
    /\ current_job_id = None
    /\ STATE_LOCK = "free"
    /\ clpc = "start"
    /\ job = NoJob
    /\ attempt = 0
    /\ clSleep = 0
    /\ claimSleeps = <<>>
    /\ claimPosts = 0
    /\ clFaulted = FALSE
    /\ genCalls = 0
    /\ trace = <<>>
    /\ pjResult = FALSE
    /\ inFlight = {}
    /\ claimLast = "none"
    /\ reportLast = "none"
    /\ genResp = NoResp
    /\ hbpc = "hb_unstarted"
    /\ current_status = "idle"
    /\ current_job = None
    /\ hbSnap = <<"idle", None>>
    /\ hbReadJob = None
    /\ hbFaulted = FALSE
    /\ hbOpen = FALSE
    /\ hbCreates = 0
    /\ hbLast = "none"
    /\ hbSleep = 0
    /\ TimeInit
    /\ GenInit
    /\ AuxInit

\* Variant of KeyCheck: a missing key is logged and the worker goes on.
KeyCheckWarnsOnly ==
    /\ clpc = "start"
    /\ clpc' = "hb_thread_start"
    /\ UNCHANGED <<envVars, stVars, STATE_LOCK, hbVars, clLocals>>

\* if not API_KEY: sys.exit(1)   (lines 316-318); otherwise the system
\* metrics are collected (322).
KeyCheck ==
    /\ clpc = "start"
    /\ IF API_KEY = ""
         THEN clpc' = "exited" /\ exit_code' = 1
         ELSE clpc' = "hb_thread_start" /\ exit_code' = exit_code
    /\ UNCHANGED <<API_KEY, timeVars, genVars, auxVars, stVars, STATE_LOCK, hbVars, clLocals>>

\* hb_thread.start()   (lines 325-326); main goes on to its while loop.
HbThreadStart ==
    /\ clpc = "hb_thread_start"
    /\ hbpc = "hb_unstarted"
    /\ clpc' = "client_new"
    /\ hbpc' = "hb_client_new"
    /\ UNCHANGED <<envVars, stVars, STATE_LOCK, clLocals, hbLocals>>

(* ------------------------------------------------------ STATE_LOCK use *)

\* Variant of Acquire: a lock that does not exclude (the holder is overwritten).
AcquireNoExclusion(t) ==
    STATE_LOCK' = t

\* `with STATE_LOCK:` entered by thread t: blocks until the lock is free.
Acquire(t) ==
    /\ STATE_LOCK = "free"
    /\ STATE_LOCK' = t

\* Leaving the `with STATE_LOCK:` block.
Release(t) ==
    /\ STATE_LOCK = t
    /\ STATE_LOCK' = "free"

(* ------------------------------------------------- control loop: claim *)

\* with httpx.Client(http2=False, timeout=30.0) as client:
ClientNew ==
    /\ clpc = "client_new"
    /\ clpc' = "loop_top"
    /\ clFaulted' = FALSE
    /\ UNCHANGED <<envVars, stVars, STATE_LOCK, hbVars, job, attempt, clSleep, claimSleeps,
                   claimPosts, genCalls, trace, pjResult,
                   inFlight, claimLast, reportLast, genResp>>

\* job = claim_job(client): entry of claim_job, attempt = 0.
ClaimEnter ==
    /\ clpc = "loop_top"
    /\ clpc' = "claim_send"
    /\ attempt' = 0
    /\ claimSleeps' = <<>>
    /\ claimPosts' = 0
    /\ genCalls' = 0
    /\ trace' = <<>>
    /\ claimLast' = "none"
    /\ reportLast' = "none"
    /\ genResp' = NoResp
    /\ UNCHANGED <<envVars, stVars, STATE_LOCK, hbVars, job, clSleep, clFaulted, pjResult,
                   inFlight>>

\* resp = client.post(.../internal/main/jobs/claim, ...): the request goes out.
ClaimPost ==
    /\ clpc = "claim_send"
    /\ clpc' = "claim_wait"
    /\ claimPosts' = claimPosts + 1
    /\ UNCHANGED <<envVars, stVars, STATE_LOCK, hbVars, job, attempt, clSleep, claimSleeps,
                   clFaulted, genCalls, trace, pjResult,
                   inFlight, claimLast, reportLast, genResp>>

\* Where main goes with what claim_job returned: `if job:` and, for a job,
\* job_id = job["musetalk_job_id"], whose KeyError lands in the outer handler.
AfterClaim(j) ==
    IF ~j.present THEN "nojob_lock"
    ELSE IF ~j.has_id THEN "outer_except"
    ELSE "busy_lock"

\* Variant of Backoff: the exponent counts attempts from 1 (2, 4, 8 seconds).
BackoffOffByOne(a) == 2 ^ (a + 1)

\* time.sleep(2 ** attempt)
Backoff(a) == 2 ^ a

\* 200, no error field, data.get("job") is a job: claim_job returns it.  The
\* call is over: its loop variable is gone and its history is dropped.
ClaimReturnsJob ==
    /\ clpc = "claim_wait"
    /\ \E j \in Jobs :
        /\ job' = j
        /\ clpc' = AfterClaim(j)
        /\ inFlight' = IF j.has_id THEN inFlight \cup {j.musetalk_job_id} ELSE inFlight
    /\ claimLast' = "job"
    /\ attempt' = 0
    /\ claimSleeps' = <<>>
    /\ claimPosts' = 0
    /\ UNCHANGED <<envVars, stVars, STATE_LOCK, hbVars, clSleep, clFaulted, genCalls, trace,
                   pjResult, reportLast, genResp>>

\* Variant of ClaimReturnsNone: a failure answer is retried after a backoff,
\* like an exception.
ClaimReturnsNoneRetries ==
    /\ clpc = "claim_wait"
    /\ \E o \in ClaimFailures :
        claimLast' = o
    /\ clpc' = "claim_backoff"
    /\ clSleep' = 2 ^ attempt
    /\ claimSleeps' = Append(claimSleeps, 2 ^ attempt)
    /\ UNCHANGED <<envVars, stVars, STATE_LOCK, hbVars, job, attempt, claimPosts, clFaulted,
                   genCalls, trace, pjResult, inFlight, reportLast, genResp>>

\* Non-200, an error field, or job null: claim_job returns None at once.
ClaimReturnsNone ==
    /\ clpc = "claim_wait"
    /\ \E o \in ClaimFailures :
        /\ claimLast' = o
        /\ job' = NoJob
        /\ clpc' = AfterClaim(NoJob)
    /\ UNCHANGED <<envVars, stVars, STATE_LOCK, hbVars, attempt, clSleep, claimSleeps,
                   claimPosts, clFaulted, genCalls, trace, pjResult,
                   inFlight, reportLast, genResp>>

\* Variant of ClaimCaught: only httpx errors are caught; any other exception
\* (an unparsable body) leaves claim_job and lands in main's outer handler.
ClaimCaughtNarrow(o) ==
    IF o = "transport_exc" THEN "claim_backoff" ELSE "outer_except"

\* Where claim_job goes when the request or resp.json() raised: `except
\* Exception` catches every exception, and the backoff sleep follows.
ClaimCaught(o) == "claim_backoff"

\* Variant of ClaimRaises: no backoff sleep after the last attempt.
ClaimRaisesNoFinalSleep ==
    /\ clpc = "claim_wait"
    /\ \E o \in ClaimExceptions :
        /\ claimLast' = o
        /\ clFaulted' = (clFaulted \/ o = "transport_exc")
        /\ IF attempt + 1 < MaxAttempts
             THEN /\ clpc' = "claim_backoff"
                  /\ clSleep' = Backoff(attempt)
                  /\ claimSleeps' = Append(claimSleeps, Backoff(attempt))
                  /\ job' = job
             ELSE /\ clpc' = AfterClaim(NoJob)
                  /\ job' = NoJob
                  /\ UNCHANGED <<clSleep, claimSleeps>>
    /\ UNCHANGED <<envVars, stVars, STATE_LOCK, hbVars, attempt, claimPosts, genCalls,
                   trace, pjResult,
                   inFlight, reportLast, genResp>>

\* except Exception: the request (or resp.json()) raised; back off.
ClaimRaises ==
    /\ clpc = "claim_wait"
    /\ \E o \in ClaimExceptions :
        /\ claimLast' = o
        /\ clFaulted' = (clFaulted \/ o = "transport_exc")
        /\ clpc' = ClaimCaught(o)
        /\ IF ClaimCaught(o) = "claim_backoff"
             THEN /\ clSleep' = Backoff(attempt)
                  /\ claimSleeps' = Append(claimSleeps, Backoff(attempt))
             ELSE UNCHANGED <<envVars, clSleep, claimSleeps>>
    /\ UNCHANGED <<envVars, stVars, STATE_LOCK, hbVars, job, attempt, claimPosts, genCalls,
                   trace, pjResult,
                   inFlight, reportLast, genResp>>

\* The backoff sleep ends: next attempt, or `return None` after the last one.
ClaimBackoffDone ==
    /\ clpc = "claim_backoff"
    /\ clSleep' = 0
    /\ IF attempt + 1 < MaxAttempts
         THEN /\ attempt' = attempt + 1
              /\ clpc' = "claim_send"
              /\ job' = job
         ELSE /\ attempt' = attempt
              /\ job' = NoJob
              /\ clpc' = AfterClaim(NoJob)
    /\ UNCHANGED <<envVars, stVars, STATE_LOCK, hbVars, claimSleeps, claimPosts, clFaulted,
                   genCalls, trace, pjResult,
                   inFlight, claimLast, reportLast, genResp>>

(* ----------------------------------------------- control loop: no job *)

\* else: with STATE_LOCK:
NoJobAcquire ==
    /\ clpc = "nojob_lock"
    /\ Acquire("main")
    /\ clpc' = "nojob_cs"
    /\ UNCHANGED <<envVars, stVars, hbVars, job, attempt, clSleep, claimSleeps, claimPosts,
                   clFaulted, genCalls, trace, pjResult,
                   inFlight, claimLast, reportLast, genResp>>

\* Variant of NoJobCheck: no sleep, straight back to the top of the loop.
NoJobCheckNoSleep ==
    /\ clpc = "nojob_cs"
    /\ Release("main")
    /\ IF status # "idle"
         THEN status' = "idle" /\ current_job_id' = None
         ELSE UNCHANGED stVars
    /\ clpc' = "loop_top"
    /\ UNCHANGED <<envVars, hbVars, clLocals>>

\* if WORKER_STATE["status"] != "idle": reset; leave the lock; time.sleep(POLL_INTERVAL)
NoJobCheck ==
    /\ clpc = "nojob_cs"
    /\ Release("main")
    /\ IF status # "idle"
         THEN status' = "idle" /\ current_job_id' = None
         ELSE UNCHANGED stVars
    /\ clpc' = "poll_sleep"
    /\ clSleep' = POLL_INTERVAL
    /\ UNCHANGED <<envVars, hbVars, job, attempt, claimSleeps, claimPosts, clFaulted,
                   genCalls, trace, pjResult,
                   inFlight, claimLast, reportLast, genResp>>

\* The poll sleep ends; next iteration of the inner loop.
PollSleepDone ==
    /\ clpc = "poll_sleep"
    /\ clpc' = "loop_top"
    /\ clSleep' = 0
    /\ UNCHANGED <<envVars, stVars, STATE_LOCK, hbVars, job, attempt, claimSleeps, claimPosts,
                   clFaulted, genCalls, trace, pjResult,
                   inFlight, claimLast, reportLast, genResp>>

(* --------------------------------------------- control loop: busy write *)

\* with STATE_LOCK: (line 342)
BusyAcquire ==
    /\ clpc = "busy_lock"
    /\ Acquire("main")
    /\ clpc' = "busy_w1"
    /\ UNCHANGED <<envVars, stVars, hbVars, clLocals>>

\* WORKER_STATE["status"] = "busy"
BusyWriteStatus ==
    /\ clpc = "busy_w1"
    /\ status' = "busy"
    /\ clpc' = "busy_w2"
    /\ UNCHANGED <<envVars, current_job_id, STATE_LOCK, hbVars, clLocals>>

\* Variant of BusyWriteJob: the id is not stored.
BusyWriteJobForgets ==
    /\ clpc = "busy_w2"
    /\ clpc' = "busy_unlock"
    /\ UNCHANGED <<envVars, stVars, STATE_LOCK, hbVars, clLocals>>

\* WORKER_STATE["current_job_id"] = job_id
BusyWriteJob ==
    /\ clpc = "busy_w2"
    /\ current_job_id' = job.musetalk_job_id
    /\ clpc' = "busy_unlock"
    /\ UNCHANGED <<envVars, status, STATE_LOCK, hbVars, clLocals>>

\* Variant of BusyRelease: process_job is called inside the with block.
BusyReleaseKeepsLock ==
    /\ clpc = "busy_unlock"
    /\ clpc' = "pj_start"
    /\ UNCHANGED <<envVars, stVars, STATE_LOCK, hbVars, clLocals>>

\* Leaving the with block; process_job(client, job) is entered.
BusyRelease ==
    /\ clpc = "busy_unlock"
    /\ Release("main")
    /\ clpc' = "pj_start"
    /\ UNCHANGED <<envVars, stVars, hbVars, clLocals>>

(* ---------------------------------------------- control loop: process_job *)

\* One report_progress call as the orchestrator would see it: the keys of
\* the payload (lines 209-218; worker_id is the same in all of them) and `ev`.
\* The progress fraction is in hundredths (0.05 is 5, 1.0 is 100); output_url
\* is "absent" when the payload has no such key (`if output_url:`); error is
\* the error text as a sequence of its parts, <<>> for None.
Report(st, pr, ph) ==
    [ev |-> "report", status |-> st, progress |-> pr, phase |-> ph,
     output_url |-> "absent", metrics |-> "none", error |-> <<>>]

\* One POST to http://localhost:8000/generate.
GenCall ==
    [ev |-> "generate", status |-> "-", progress |-> 0, phase |-> "-",
     output_url |-> "absent", metrics |-> "none", error |-> <<>>]

\* report_progress(client, job_id, "failed", 0.0, "failed", error=error_msg)
FailedReport(error_msg) ==
    [Report("failed", 0, "failed") EXCEPT !.error = error_msg]

\* The text of a non-200 answer, as the sequence of the values in it.
BodyText(r) ==
    IF r.error_type = "none" THEN <<"Bad Gateway">>
    ELSE <<r.error_type, r.error_message, r.stage, r.retryable>>

\* gen_resp.text[:200]
Text200(r) == SubSeq(BodyText(r), 1, r.fits)

\* Variant of ErrorOfFailedStatus: error_message is looked at first.
ErrorOfFailedStatusSwapped(r) ==
    IF r.error_message \notin Falsy THEN <<r.error_message>>
    ELSE IF r.error \notin Falsy THEN <<r.error>>
    ELSE <<"Unknown error from /generate">>

\* result.get("error") or result.get("error_message") or "Unknown error from
\* /generate"   (line 282)
ErrorOfFailedStatus(r) ==
    IF r.error \notin Falsy THEN <<r.error>>
    ELSE IF r.error_message \notin Falsy THEN <<r.error_message>>
    ELSE <<"Unknown error from /generate">>

\* f"HTTP {gen_resp.status_code}: {gen_resp.text[:200]}"   (line 287)
ErrorOfNon200(r) == <<"HTTP", r.status_code>> \o Text200(r)

\* f"{type(e).__name__}: {str(e)}"   (line 293)
ErrorOfException(name) == <<name>>

\* Variant of SuccessReport: the output_url and metrics are not passed on.
SuccessReportBare(r) == Report("succeeded", 100, "completed")

\* report_progress(client, job_id, "succeeded", 1.0, "completed",
\*                 metrics=metrics, output_url=output_url)   (line 278)
SuccessReport(r) ==
    [Report("succeeded", 100, "completed") EXCEPT
        !.output_url = IF r.output_url = "none" THEN "absent" ELSE r.output_url,
        !.metrics = r.metrics]

\* The terminal report process_job sends for what /generate ended in:
\* lines 278 (success), 284 (failed status), 289 (non-200), 296 (exception).
TerminalReport(r) ==
    IF r.outcome = "succeeded" THEN SuccessReport(r)
    ELSE IF r.outcome = "failed_status" THEN FailedReport(ErrorOfFailedStatus(r))
    ELSE IF r.outcome = "non200" THEN FailedReport(ErrorOfNon200(r))
    ELSE FailedReport(ErrorOfException(r.exc))

\* Variant of PjStartReport: no start report, straight on to /generate.
PjStartReportSkipped ==
    /\ clpc = "pj_start"
    /\ clpc' = "pj_gen_body"
    /\ UNCHANGED <<envVars, stVars, STATE_LOCK, hbVars, clLocals>>

\* report_progress(client, job_id, "running", 0.05, "downloading"): request out.
PjStartReport ==
    /\ clpc = "pj_start"
    /\ clpc' = "pj_start_wait"
    /\ trace' = Append(trace, Report("running", 5, "downloading"))
    /\ UNCHANGED <<envVars, stVars, STATE_LOCK, hbVars, job, attempt, clSleep, claimSleeps,
                   claimPosts, clFaulted, genCalls, pjResult,
                   inFlight, claimLast, reportLast, genResp>>

\* Variant of ReportCaught: report_progress catches httpx errors only; another
\* exception (a payload that cannot be serialised) reaches main's outer handler.
ReportCaughtNarrow(o, next) ==
    IF o = "other_exc" THEN "outer_except" ELSE next

\* Where the control loop goes when a report_progress request has ended in o:
\* report_progress returns True or False, every exception is caught inside it
\* (lines 227-229), and the caller ignores the value: on to `next`.
ReportCaught(o, next) == next

\* The start report's request ends; process_job goes on to build gen_body.
PjStartReportDone ==
    /\ clpc = "pj_start_wait"
    /\ \E o \in ReportOutcomes :
        /\ reportLast' = o
        /\ clFaulted' = (clFaulted \/ o = "transport_exc")
        /\ clpc' = ReportCaught(o, "pj_gen_body")
    /\ UNCHANGED <<envVars, stVars, STATE_LOCK, hbVars, job, attempt, clSleep, claimSleeps,
                   claimPosts, genCalls, trace, pjResult,
                   inFlight, claimLast, genResp>>

\* gen_body is built and client.post("http://localhost:8000/generate") goes out.
GenPost ==
    /\ clpc = "pj_gen_body"
    /\ job.has_urls
    /\ clpc' = "gen_wait"
    /\ genCalls' = genCalls + 1
    /\ trace' = Append(trace, GenCall)
    /\ UNCHANGED <<envVars, stVars, STATE_LOCK, hbVars, job, attempt, clSleep, claimSleeps,
                   claimPosts, clFaulted, pjResult,
                   inFlight, claimLast, reportLast, genResp>>

\* job["video_url"] raises KeyError: except Exception sends the failed report.
GenBodyKeyError ==
    /\ clpc = "pj_gen_body"
    /\ ~job.has_urls
    /\ clpc' = "pj_term_wait"
    /\ trace' = Append(trace, FailedReport(ErrorOfException("KeyError")))
    /\ UNCHANGED <<envVars, stVars, STATE_LOCK, hbVars, job, attempt, clSleep, claimSleeps,
                   claimPosts, clFaulted, genCalls, pjResult,
                   inFlight, claimLast, reportLast, genResp>>

\* Variant of GenResponse: an exception of /generate is retried.
GenResponseRetries ==
    /\ clpc = "gen_wait"
    /\ \E r \in GenResponses :
        /\ genResp' = r
        /\ IF r.outcome = "exception"
             THEN clpc' = "pj_gen_body" /\ trace' = trace
             ELSE clpc' = "pj_term_wait" /\ trace' = Append(trace, TerminalReport(r))
    /\ UNCHANGED <<envVars, stVars, STATE_LOCK, hbVars, job, attempt, clSleep, claimSleeps,
                   claimPosts, clFaulted, genCalls, pjResult,
                   inFlight, claimLast, reportLast>>

\* Variant of GenResponse: process_job has no `except Exception`; an exception
\* of /generate ends the control loop.
GenResponseUncaught ==
    /\ clpc = "gen_wait"
    /\ \E r \in GenResponses :
        /\ genResp' = r
        /\ IF r.outcome = "exception"
             THEN clpc' = "cl_dead" /\ trace' = trace
             ELSE clpc' = "pj_term_wait" /\ trace' = Append(trace, TerminalReport(r))
    /\ UNCHANGED <<envVars, stVars, STATE_LOCK, hbVars, job, attempt, clSleep, claimSleeps,
                   claimPosts, clFaulted, genCalls, pjResult,
                   inFlight, claimLast, reportLast>>

\* As GenResponse, with the answer drawn from all of GenAnswers.
GenAnswer ==
    /\ clpc = "gen_wait"
    /\ \E r \in GenAnswers :
        /\ genResp' = r
        /\ trace' = Append(trace, TerminalReport(r))
    /\ clpc' = "pj_term_wait"
    /\ UNCHANGED <<envVars, stVars, STATE_LOCK, hbVars, job, attempt, clSleep, claimSleeps,
                   claimPosts, clFaulted, genCalls, pjResult,
                   inFlight, claimLast, reportLast>>

\* /generate answered or raised; the terminal report request goes out.
GenResponse ==
    /\ clpc = "gen_wait"
    /\ \E r \in GenResponses :
        /\ genResp' = r
        /\ trace' = Append(trace, TerminalReport(r))
    /\ clpc' = "pj_term_wait"
    /\ UNCHANGED <<envVars, stVars, STATE_LOCK, hbVars, job, attempt, clSleep, claimSleeps,
                   claimPosts, clFaulted, genCalls, pjResult,
                   inFlight, claimLast, reportLast>>

\* Variant of PjTermReportDone: a terminal report that was not delivered is
\* sent again.
PjTermReportDoneResends ==
    /\ clpc = "pj_term_wait"
    /\ \E o \in ReportOutcomes :
        /\ reportLast' = o
        /\ clFaulted' = (clFaulted \/ o = "transport_exc")
        /\ IF o = "ok"
             THEN /\ clpc' = "idle_lock"
                  /\ trace' = trace
                  /\ inFlight' = inFlight \ {job.musetalk_job_id}
             ELSE /\ clpc' = "pj_term_wait"
                  /\ trace' = Append(trace, trace[Len(trace)])
                  /\ inFlight' = inFlight
    /\ pjResult' = (trace[Len(trace)].status = "succeeded")
    /\ UNCHANGED <<envVars, stVars, STATE_LOCK, hbVars, job, attempt, clSleep, claimSleeps,
                   claimPosts, genCalls, claimLast, genResp>>

\* Variant of PjTermReportDone: a job that failed is processed again.
PjTermReportDoneReprocesses ==
    /\ clpc = "pj_term_wait"
    /\ \E o \in ReportOutcomes :
        /\ reportLast' = o
        /\ clFaulted' = (clFaulted \/ o = "transport_exc")
    /\ pjResult' = (trace[Len(trace)].status = "succeeded")
    /\ IF trace[Len(trace)].status = "succeeded"
         THEN clpc' = "idle_lock" /\ inFlight' = inFlight \ {job.musetalk_job_id}
         ELSE clpc' = "pj_start" /\ inFlight' = inFlight
    /\ UNCHANGED <<envVars, stVars, STATE_LOCK, hbVars, job, attempt, clSleep, claimSleeps,
                   claimPosts, genCalls, trace, claimLast, genResp>>

\* The terminal report's request ends; process_job returns True after the
\* success report (line 280) and False after a failure report (285, 290, 297).
PjTermReportDone ==
    /\ clpc = "pj_term_wait"
    /\ \E o \in ReportOutcomes :
        /\ reportLast' = o
        /\ clFaulted' = (clFaulted \/ o = "transport_exc")
        /\ clpc' = ReportCaught(o, "idle_lock")
    /\ pjResult' = (trace[Len(trace)].status = "succeeded")
    /\ inFlight' = inFlight \ {job.musetalk_job_id}
    /\ UNCHANGED <<envVars, stVars, STATE_LOCK, hbVars, job, attempt, clSleep, claimSleeps,
                   claimPosts, genCalls, trace,
                   claimLast, genResp>>

(* --------------------------------------------- control loop: idle write *)

\* with STATE_LOCK: (line 352)
IdleAcquire ==
    /\ clpc = "idle_lock"
    /\ Acquire("main")
    /\ clpc' = "idle_w1"
    /\ UNCHANGED <<envVars, stVars, hbVars, clLocals>>

\* Variant of IdleWriteStatus: the status is left as it is.
IdleWriteStatusSkipped ==
    /\ clpc = "idle_w1"
    /\ clpc' = "idle_w2"
    /\ UNCHANGED <<envVars, stVars, STATE_LOCK, hbVars, clLocals>>

\* WORKER_STATE["status"] = "idle"
IdleWriteStatus ==
    /\ clpc = "idle_w1"
    /\ status' = "idle"
    /\ clpc' = "idle_w2"
    /\ UNCHANGED <<envVars, current_job_id, STATE_LOCK, hbVars, clLocals>>

\* Variant of IdleWriteJob: the id is left as it is.
IdleWriteJobKeeps ==
    /\ clpc = "idle_w2"
    /\ clpc' = "idle_unlock"
    /\ UNCHANGED <<envVars, stVars, STATE_LOCK, hbVars, clLocals>>

\* WORKER_STATE["current_job_id"] = None
IdleWriteJob ==
    /\ clpc = "idle_w2"
    /\ current_job_id' = None
    /\ clpc' = "idle_unlock"
    /\ UNCHANGED <<envVars, status, STATE_LOCK, hbVars, clLocals>>

\* Variant of IdleRelease: the poll sleep follows a processed job too.
IdleReleaseSleeps ==
    /\ clpc = "idle_unlock"
    /\ Release("main")
    /\ clpc' = "poll_sleep"
    /\ clSleep' = POLL_INTERVAL
    /\ UNCHANGED <<envVars, stVars, hbVars, job, attempt, claimSleeps, claimPosts, clFaulted,
                   genCalls, trace, pjResult,
                   inFlight, claimLast, reportLast, genResp>>

\* Leaving the with block; the inner loop starts over with a claim.
IdleRelease ==
    /\ clpc = "idle_unlock"
    /\ Release("main")
    /\ clpc' = "loop_top"
    /\ UNCHANGED <<envVars, stVars, hbVars, clLocals>>

(* ----------------------------------- control loop: except Exception (outer) *)

\* main's inner handler `except (httpx.RequestError, httpx.HTTPStatusError)`
\* (lines 366-368) has no action: claim_job, report_progress and process_job
\* each catch Exception themselves, so no such exception reaches it.  The only
\* exception of the inner loop's body is the KeyError of line 338, which
\* is handled by the outer `except Exception`.  KeyboardInterrupt (process
\* shutdown) is outside the model.

\* The exception left the `with httpx.Client` block; with STATE_LOCK: (line 381)
OuterAcquire ==
    /\ clpc = "outer_except"
    /\ Acquire("main")
    /\ clpc' = "outer_w1"
    /\ UNCHANGED <<envVars, stVars, hbVars, clLocals>>

\* WORKER_STATE["status"] = "idle"
OuterWriteStatus ==
    /\ clpc = "outer_w1"
    /\ status' = "idle"
    /\ clpc' = "outer_w2"
    /\ UNCHANGED <<envVars, current_job_id, STATE_LOCK, hbVars, clLocals>>

\* WORKER_STATE["current_job_id"] = None
OuterWriteJob ==
    /\ clpc = "outer_w2"
    /\ current_job_id' = None
    /\ clpc' = "outer_unlock"
    /\ UNCHANGED <<envVars, status, STATE_LOCK, hbVars, clLocals>>

\* Variant of OuterRelease: the handler leaves the loop (`break`), as the
\* KeyboardInterrupt handler does.
OuterReleaseStops ==
    /\ clpc = "outer_unlock"
    /\ Release("main")
    /\ clpc' = "cl_dead"
    /\ UNCHANGED <<envVars, stVars, hbVars, clLocals>>

\* Leaving the with block; time.sleep(POLL_INTERVAL)
OuterRelease ==
    /\ clpc = "outer_unlock"
    /\ Release("main")
    /\ clpc' = "outer_sleep"
    /\ clSleep' = POLL_INTERVAL
    /\ UNCHANGED <<envVars, stVars, hbVars, job, attempt, claimSleeps, claimPosts, clFaulted,
                   genCalls, trace, pjResult,
                   inFlight, claimLast, reportLast, genResp>>

\* The sleep ends; the outer `while True` creates a new client.
OuterSleepDone ==
    /\ clpc = "outer_sleep"
    /\ clpc' = "client_new"
    /\ clSleep' = 0
    /\ UNCHANGED <<envVars, stVars, STATE_LOCK, hbVars, job, attempt, claimSleeps, claimPosts,
                   clFaulted, genCalls, trace, pjResult,
                   inFlight, claimLast, reportLast, genResp>>

(* ------------------------------------------------------ heartbeat thread *)

\* with httpx.Client(timeout=10.0, http2=False) as client:
HbClientNew ==
    /\ hbpc = "hb_client_new"
    /\ hbpc' = "hb_lock"
    /\ hbOpen' = TRUE
    /\ hbFaulted' = FALSE
    /\ hbCreates' = hbCreates + 1
    /\ UNCHANGED <<envVars, stVars, STATE_LOCK, clVars, current_status, current_job, hbSnap,
                   hbReadJob, hbLast, hbSleep>>

\* with STATE_LOCK: (line 121)
HbAcquire ==
    /\ hbpc = "hb_lock"
    /\ Acquire("hb")
    /\ hbpc' = "hb_r1"
    /\ UNCHANGED <<envVars, stVars, clVars, hbLocals>>

\* current_status = WORKER_STATE["status"]
HbReadStatus ==
    /\ hbpc = "hb_r1"
    /\ current_status' = status
    /\ hbSnap' = <<status, current_job_id>>
    /\ hbReadJob' = IF clpc \in ProcessingPcs THEN job.musetalk_job_id ELSE None
    /\ hbpc' = "hb_r2"
    /\ UNCHANGED <<envVars, stVars, STATE_LOCK, clVars, current_job, hbFaulted, hbOpen,
                   hbCreates, hbLast, hbSleep>>

\* Variant of HbReadJob: the heartbeat thread takes the job id out of the
\* state as it reads it (WORKER_STATE.pop with a None left behind).
HbReadJobClears ==
    /\ hbpc = "hb_r2"
    /\ current_job' = current_job_id
    /\ current_job_id' = None
    /\ hbpc' = "hb_unlock"
    /\ UNCHANGED <<envVars, status, STATE_LOCK, clVars, current_status, hbSnap, hbReadJob,
                   hbFaulted, hbOpen, hbCreates, hbLast, hbSleep>>

\* current_job = WORKER_STATE["current_job_id"]
HbReadJob ==
    /\ hbpc = "hb_r2"
    /\ current_job' = current_job_id
    /\ hbpc' = "hb_unlock"
    /\ UNCHANGED <<envVars, stVars, STATE_LOCK, clVars, current_status, hbSnap, hbReadJob,
                   hbFaulted, hbOpen, hbCreates, hbLast, hbSleep>>

\* Variant of HbRelease: the request is sent from inside the with block.
HbReleaseKeepsLock ==
    /\ hbpc = "hb_unlock"
    /\ hbpc' = "hb_send"
    /\ UNCHANGED <<envVars, stVars, STATE_LOCK, clVars, hbLocals>>

\* Leaving the with block.
HbRelease ==
    /\ hbpc = "hb_unlock"
    /\ Release("hb")
    /\ hbpc' = "hb_send"
    /\ UNCHANGED <<envVars, stVars, clVars, hbLocals>>

\* resp = client.post(.../heartbeat, json={status, current_job_id, ...}): request out.
HbPost ==
    /\ hbpc = "hb_send"
    /\ hbpc' = "hb_wait"
    /\ hbCreates' = 0
    /\ UNCHANGED <<envVars, stVars, STATE_LOCK, clVars, current_status, current_job, hbSnap,
                   hbReadJob, hbFaulted, hbOpen, hbLast, hbSleep>>

\* Variant of HbAfter: no `except Exception` clause, the thread dies.
HbAfterUncaught(o) ==
    IF o = "transport_exc" THEN "hb_client_new"
    ELSE IF o = "other_exc" THEN "hb_dead"
    ELSE "hb_sleep"

\* Variant of HbAfter: a RequestError is handled like any other exception.
HbAfterReuse(o) == "hb_sleep"

\* Where heartbeat_loop goes with the outcome of the request: a response (200
\* or not) sleeps 5 s; a RequestError breaks out of the inner loop, which
\* closes the client; any other exception sleeps 5 s and keeps the client.
HbAfter(o) ==
    IF o = "transport_exc" THEN "hb_client_new" ELSE "hb_sleep"

\* Variant of HbResponse: only a 200 answer is followed by the sleep; after
\* any other answer the next heartbeat is read and sent at once.
HbResponseSleepsOn200Only ==
    /\ hbpc = "hb_wait"
    /\ \E o \in HbOutcomes :
        /\ hbLast' = o
        /\ hbpc' = IF o = "non200" THEN "hb_lock" ELSE HbAfter(o)
        /\ hbFaulted' = (hbFaulted \/ o = "transport_exc")
        /\ hbOpen' = (HbAfter(o) # "hb_client_new")
        /\ hbSleep' = IF HbAfter(o) = "hb_sleep" /\ o # "non200"
                        THEN HEARTBEAT_INTERVAL ELSE 0
    /\ UNCHANGED <<envVars, stVars, STATE_LOCK, clVars, current_status, current_job, hbSnap,
                   hbReadJob, hbCreates>>

\* The request ends.
HbResponse ==
    /\ hbpc = "hb_wait"
    /\ \E o \in HbOutcomes :
        /\ hbLast' = o
        /\ hbpc' = HbAfter(o)
        /\ hbFaulted' = (hbFaulted \/ o = "transport_exc")
        /\ hbOpen' = (HbAfter(o) # "hb_client_new")
        /\ hbSleep' = IF HbAfter(o) = "hb_sleep" THEN HEARTBEAT_INTERVAL ELSE 0
    /\ UNCHANGED <<envVars, stVars, STATE_LOCK, clVars, current_status, current_job, hbSnap,
                   hbReadJob, hbCreates>>

\* time.sleep(5) ends; next iteration of the inner loop.
HbSleepDone ==
    /\ hbpc = "hb_sleep"
    /\ hbpc' = "hb_lock"
    /\ hbSleep' = 0
    /\ UNCHANGED <<envVars, stVars, STATE_LOCK, clVars, current_status, current_job, hbSnap,
                   hbReadJob, hbFaulted, hbOpen, hbCreates, hbLast>>

(* --------------------------------------------------------- specification *)

\* The control loop's steps other than the end of the /generate call.
ClSteps ==
    \/ ClientNew \/ ClaimEnter \/ ClaimPost
    \/ ClaimReturnsJob \/ ClaimReturnsNone \/ ClaimRaises \/ ClaimBackoffDone
    \/ NoJobAcquire \/ NoJobCheck \/ PollSleepDone
    \/ BusyAcquire \/ BusyWriteStatus \/ BusyWriteJob \/ BusyRelease
    \/ PjStartReport \/ PjStartReportDone \/ GenPost \/ GenBodyKeyError
    \/ PjTermReportDone
    \/ IdleAcquire \/ IdleWriteStatus \/ IdleWriteJob \/ IdleRelease
    \/ OuterAcquire \/ OuterWriteStatus \/ OuterWriteJob \/ OuterRelease
    \/ OuterSleepDone

ClNext == ClSteps \/ GenResponse

HbNext ==
    \/ HbClientNew \/ HbAcquire \/ HbReadStatus \/ HbReadJob \/ HbRelease
    \/ HbPost \/ HbResponse \/ HbSleepDone

Next == ClNext \/ HbNext

Spec == Init /\ [][Next]_vars

\* The control loop on its own, the heartbeat thread not yet scheduled, with
\* every answer of GenAnswers: the reports process_job builds from an answer
\* do not depend on the heartbeat thread, which never writes a variable of
\* the control loop.
ReplyNext == ClSteps \/ GenAnswer

ReplySpec == Init /\ [][ReplyNext]_vars

(* The two loops with time, in the scenario in which the orchestrator has  *)
(* no job and answers every request at once with 200: a request and the     *)
(* statements around it take no time, so time passes only while both loops  *)
(* sleep.  Both loops start together (main starts the heartbeat thread and   *)
(* enters its loop).  WORKER_STATE stays idle/null throughout, so only the  *)
(* positions, the sleeps and the counts of requests are kept.               *)
workerVars == <<API_KEY, exit_code, stVars, STATE_LOCK, clVars, hbVars>>
baseVars == <<workerVars, genVars>>

\* job = claim_job(client): one request, answered 200 with job=null.
TimedClaim ==
    /\ tclpc = "claim"
    /\ tclpc' = "nojob"
    /\ tClaims' = tClaims + 1
    /\ UNCHANGED <<baseVars, auxVars, now, tclLeft, thbpc, thbLeft, tBeats>>

\* else: with STATE_LOCK: (status is idle); time.sleep(POLL_INTERVAL)
TimedNoJob ==
    /\ tclpc = "nojob"
    /\ tclpc' = "sleep"
    /\ tclLeft' = POLL_INTERVAL
    /\ UNCHANGED <<baseVars, auxVars, now, thbpc, thbLeft, tBeats, tClaims>>

\* The poll sleep is over: next iteration.
TimedPollWake ==
    /\ tclpc = "sleep"
    /\ tclLeft = 0
    /\ tclpc' = "claim"
    /\ UNCHANGED <<baseVars, auxVars, now, tclLeft, thbpc, thbLeft, tBeats, tClaims>>

\* with STATE_LOCK: read status and current_job_id   (lines 121-123)
TimedHbRead ==
    /\ thbpc = "read"
    /\ thbpc' = "post"
    /\ UNCHANGED <<baseVars, auxVars, now, tclpc, tclLeft, thbLeft, tBeats, tClaims>>

\* Variant of TimedHbPost: the heartbeat loop sleeps two intervals.
TimedHbPostSleepsTwice ==
    /\ thbpc = "post"
    /\ thbpc' = "sleep"
    /\ tBeats' = tBeats + 1
    /\ thbLeft' = 2 * HEARTBEAT_INTERVAL
    /\ UNCHANGED <<baseVars, auxVars, now, tclpc, tclLeft, tClaims>>

\* client.post(.../heartbeat), answered 200; time.sleep(5)   (lines 126-143)
TimedHbPost ==
    /\ thbpc = "post"
    /\ thbpc' = "sleep"
    /\ tBeats' = tBeats + 1
    /\ thbLeft' = HEARTBEAT_INTERVAL
    /\ UNCHANGED <<baseVars, auxVars, now, tclpc, tclLeft, tClaims>>

\* The heartbeat sleep is over: next iteration.
TimedHbWake ==
    /\ thbpc = "sleep"
    /\ thbLeft = 0
    /\ thbpc' = "read"
    /\ UNCHANGED <<baseVars, auxVars, now, tclpc, tclLeft, thbLeft, tBeats, tClaims>>

\* One second passes while both loops sleep; the counts start again when a
\* new poll interval begins.
Tick ==
    /\ now < MaxPolls * POLL_INTERVAL
    /\ tclpc = "sleep" /\ tclLeft > 0
    /\ thbpc = "sleep" /\ thbLeft > 0
    /\ now' = now + 1
    /\ tclLeft' = tclLeft - 1
    /\ thbLeft' = thbLeft - 1
    /\ IF (now + 1) % POLL_INTERVAL = 0
         THEN tBeats' = 0 /\ tClaims' = 0
         ELSE UNCHANGED <<tBeats, tClaims>>
    /\ UNCHANGED <<baseVars, auxVars, tclpc, thbpc>>

TimedNext ==
    \/ TimedClaim \/ TimedNoJob \/ TimedPollWake
    \/ TimedHbRead \/ TimedHbPost \/ TimedHbWake
    \/ Tick

TimedSpec == Init /\ [][TimedNext]_vars

(* The /generate endpoint of worker_app/main.py, one request: the startup   *)
(* check, the four stages inside the try block, the three handlers.  What   *)
(* a stage ends in is chosen with \E among the exceptions its code raises.  *)

\* What musetalk_job_id a request can carry: GenerateRequest requires a
\* string, which can be empty (`if job_id:`).
RequestJobIds == {"", "job-42"}

\* How the startup check (lines 980-985) can end: torch imports and CUDA is
\* there, CUDA is not there (logged), the import raises ImportError (logged),
\* or the import raises something else (a shared library that does not load).
CheckOutcomes == {"ok", "no_cuda", "import_error", "os_error"}

\* Variant of GenHandle: a processing error is never retryable.
GenHandleNeverRetryable(e, times) ==
    IF IsMediaError(e)
      THEN [status_code |-> 422, status |-> "failed", error_type |-> "media_error",
            stage |-> e.stage, retryable |-> FALSE, stack_trace |-> FALSE,
            stage_times |-> times]
    ELSE IF e.kind = "ProcessingError"
      THEN [status_code |-> 500, status |-> "failed", error_type |-> "processing_error",
            stage |-> e.stage, retryable |-> FALSE, stack_trace |-> TRUE,
            stage_times |-> times]
    ELSE [status_code |-> 500, status |-> "failed", error_type |-> "unknown_error",
          stage |-> "unknown", retryable |-> FALSE, stack_trace |-> TRUE,
          stage_times |-> times]

\* The three handlers of generate(): except MediaError (1069-1092), except
\* ProcessingError (1094-1118), except Exception (1120-1143).
GenHandle(e, times) ==
    IF IsMediaError(e)
      THEN [status_code |-> 422, status |-> "failed", error_type |-> "media_error",
            stage |-> e.stage, retryable |-> FALSE, stack_trace |-> FALSE,
            stage_times |-> times]
    ELSE IF e.kind = "ProcessingError"
      THEN [status_code |-> 500, status |-> "failed", error_type |-> "processing_error",
            stage |-> e.stage, retryable |-> e.retryable, stack_trace |-> TRUE,
            stage_times |-> times]
    ELSE [status_code |-> 500, status |-> "failed", error_type |-> "unknown_error",
          stage |-> "unknown", retryable |-> FALSE, stack_trace |-> TRUE,
          stage_times |-> times]

\* return GenerateResponse(status="success", ...)   (lines 1056-1067)
GenSuccess(times) ==
    [status_code |-> 200, status |-> "success", error_type |-> "none", stage |-> "none",
     retryable |-> FALSE, stack_trace |-> FALSE, stage_times |-> times]

\* The paths _download_to_temp returns for the two inputs (tempfile.mkstemp
\* with suffix ".mp4" and ".wav").
VideoFile == "/tmp/video.mp4"
AudioFile == "/tmp/audio.wav"

\* finally (1145-1152): for p in [video_path, audio_path], if p is set and
\* the file exists, os.remove(p); an OSError of os.remove is passed over and
\* the file stays.
Cleanup ==
    \E failed \in SUBSET (tmp_files \cap {video_path, audio_path}) :
        /\ tmp_files' = (tmp_files \ {video_path, audio_path}) \cup failed
        /\ rm_failed' = failed

\* A request arrives: job_id = req.musetalk_job_id.
GenRequest ==
    /\ gen_pc = "idle"
    /\ \E j \in RequestJobIds : job_id' = j
    /\ gen_pc' = "check"
    /\ UNCHANGED <<workerVars, timeVars, auxVars, pathVars, gen_check, gen_started, stage_times,
                   gen_updates, gen_exc, gen_result>>

\* try: import torch ... except ImportError   (lines 980-985): an exception
\* that is not an ImportError is outside every handler of generate().
GenStartupCheck ==
    /\ gen_pc = "check"
    /\ \E o \in CheckOutcomes :
        /\ gen_check' = o
        /\ IF o = "os_error"
             THEN gen_pc' = "escaped" /\ gen_exc' = OtherException
             ELSE gen_pc' = "download_video" /\ gen_exc' = gen_exc
    /\ UNCHANGED <<workerVars, timeVars, auxVars, pathVars, job_id, gen_started, stage_times,
                   gen_updates, gen_result>>

\* video_path = await _download_to_temp(str(req.video_url), ...)   (line 1009):
\* a path, a DownloadError (372-479), or an error of the local file system
\* (mkstemp, write), which _download_to_temp does not catch.
GenDownloadVideo ==
    /\ gen_pc = "download_video"
    /\ gen_started' = Append(gen_started, "download")
    /\ \E e \in {NoExc, DownloadError, OtherException} :
        /\ gen_exc' = e
        /\ gen_pc' = IF e = NoExc THEN "download_audio" ELSE "raised"
        /\ video_path' = IF e = NoExc THEN VideoFile ELSE video_path
        /\ tmp_files' = IF e = NoExc THEN tmp_files \cup {VideoFile} ELSE tmp_files
    /\ UNCHANGED <<workerVars, timeVars, auxVars, audio_path, rm_failed, job_id, gen_check, stage_times,
                   gen_updates, gen_result>>

\* Variant of GenDownloadAudio: validation is left out.
GenDownloadAudioThenInference ==
    /\ gen_pc = "download_audio"
    /\ \E e \in {NoExc, DownloadError, OtherException} :
        /\ gen_exc' = e
        /\ IF e = NoExc
             THEN gen_pc' = "inference" /\ stage_times' = stage_times \cup {"download"}
             ELSE gen_pc' = "raised" /\ stage_times' = stage_times
        /\ audio_path' = IF e = NoExc THEN AudioFile ELSE audio_path
        /\ tmp_files' = IF e = NoExc THEN tmp_files \cup {AudioFile} ELSE tmp_files
    /\ UNCHANGED <<workerVars, timeVars, auxVars, video_path, rm_failed, job_id, gen_check, gen_started,
                   gen_updates, gen_result>>

\* audio_path = await _download_to_temp(str(req.audio_url), ...);
\* stage_times["download"] = ...   (lines 1010-1011)
GenDownloadAudio ==
    /\ gen_pc = "download_audio"
    /\ \E e \in {NoExc, DownloadError, OtherException} :
        /\ gen_exc' = e
        /\ IF e = NoExc
             THEN gen_pc' = "validate_video" /\ stage_times' = stage_times \cup {"download"}
             ELSE gen_pc' = "raised" /\ stage_times' = stage_times
        /\ audio_path' = IF e = NoExc THEN AudioFile ELSE audio_path
        /\ tmp_files' = IF e = NoExc THEN tmp_files \cup {AudioFile} ELSE tmp_files
    /\ UNCHANGED <<workerVars, timeVars, auxVars, video_path, rm_failed, job_id, gen_check, gen_started,
                   gen_updates, gen_result>>

\* _validate_media_file(video_path, "video")   (line 1015): every failure is
\* raised as MediaError(stage="validation") (482-555).
GenValidateVideo ==
    /\ gen_pc = "validate_video"
    /\ gen_started' = Append(gen_started, "validation")
    /\ \E e \in {NoExc, MediaErrorAt("validation")} :
        /\ gen_exc' = e
        /\ gen_pc' = IF e = NoExc THEN "validate_audio" ELSE "raised"
    /\ UNCHANGED <<workerVars, timeVars, auxVars, pathVars, job_id, gen_check, stage_times,
                   gen_updates, gen_result>>

\* _validate_media_file(audio_path, "audio"); stage_times["validation"] = ...
GenValidateAudio ==
    /\ gen_pc = "validate_audio"
    /\ \E e \in {NoExc, MediaErrorAt("validation")} :
        /\ gen_exc' = e
        /\ IF e = NoExc
             THEN gen_pc' = "inference" /\ stage_times' = stage_times \cup {"validation"}
             ELSE gen_pc' = "raised" /\ stage_times' = stage_times
    /\ UNCHANGED <<workerVars, timeVars, auxVars, pathVars, job_id, gen_check, gen_started,
                   gen_updates, gen_result>>

\* The inference stage (lines 1019-1040): a progress update of 0.1 if job_id
\* is not empty (its failure is swallowed), then _run_musetalk_inference,
\* which raises ProcessingError with stage "inference" (714-757) or
\* "postprocessing" (859), or another exception (the config file cannot be
\* written, a line of the output cannot be split).
GenInference ==
    /\ gen_pc = "inference"
    /\ gen_started' = Append(gen_started, "inference")
    /\ gen_updates' = IF job_id # "" THEN Append(gen_updates, 10) ELSE gen_updates
    /\ \E e \in {NoExc, OtherException, ProcessingErrorAt("postprocessing", FALSE)}
                \cup {ProcessingErrorAt("inference", r) : r \in BOOLEAN} :
        /\ gen_exc' = e
        /\ IF e = NoExc
             THEN gen_pc' = "upload" /\ stage_times' = stage_times \cup {"inference"}
             ELSE gen_pc' = "raised" /\ stage_times' = stage_times
    /\ UNCHANGED <<workerVars, timeVars, auxVars, pathVars, job_id, gen_check, gen_result>>

\* The upload stage (lines 1042-1067): a progress update of 0.95, then
\* _upload_to_b2, which raises ProcessingError(stage="upload") (567-628) or,
\* from its import of b2sdk, another exception; then the metadata file, whose
\* failure is swallowed (919), and the success answer.
GenUpload ==
    /\ gen_pc = "upload"
    /\ gen_started' = Append(gen_started, "upload")
    /\ gen_updates' = IF job_id # "" THEN Append(gen_updates, 95) ELSE gen_updates
    /\ \E e \in {NoExc, OtherException} \cup {ProcessingErrorAt("upload", r) : r \in BOOLEAN} :
        /\ gen_exc' = e
        /\ IF e = NoExc
             THEN /\ gen_pc' = "returned"
                  /\ stage_times' = stage_times \cup {"upload"}
                  /\ gen_result' = GenSuccess(stage_times \cup {"upload"})
                  /\ Cleanup
             ELSE /\ gen_pc' = "raised"
                  /\ stage_times' = stage_times
                  /\ gen_result' = gen_result
                  /\ UNCHANGED <<tmp_files, rm_failed>>
    /\ UNCHANGED <<workerVars, timeVars, auxVars, video_path, audio_path, job_id, gen_check>>

\* Variant of GenExcept: the handlers return without the finally block.
GenExceptNoCleanup ==
    /\ gen_pc = "raised"
    /\ gen_result' = GenHandle(gen_exc, stage_times)
    /\ gen_pc' = "returned"
    /\ UNCHANGED <<workerVars, timeVars, auxVars, pathVars, job_id, gen_check, gen_started,
                   stage_times, gen_updates, gen_exc>>

\* The handler that matches the exception builds the answer; the finally
\* block runs before it is returned.
GenExcept ==
    /\ gen_pc = "raised"
    /\ gen_result' = GenHandle(gen_exc, stage_times)
    /\ gen_pc' = "returned"
    /\ Cleanup
    /\ UNCHANGED <<workerVars, timeVars, auxVars, video_path, audio_path, job_id, gen_check,
                   gen_started, stage_times, gen_updates, gen_exc>>

GenNext ==
    \/ GenRequest \/ GenStartupCheck
    \/ GenDownloadVideo \/ GenDownloadAudio
    \/ GenValidateVideo \/ GenValidateAudio
    \/ GenInference \/ GenUpload \/ GenExcept

GenSpec == Init /\ [][GenNext]_vars

(* ------------------------------------------- worker_app: output parsing *)
(* _run_musetalk_inference reads the stdout of scripts.inference line by     *)
(* line (780-836).  Progress is kept in thousandths: with the frame totals   *)
(* of FrameTotals, 0.8 * frac is a whole number of thousandths.              *)

\* Values of a "Number of frames:" line: int() accepts any integer, 0 and
\* negative ones included.
FrameTotals == {0, 4, 10, -4}

\* Values of a "PROGRESS_FRAMES=" line.
FrameCounts == {-1, 0, 1, 2, 4, 5, 10, 12}

\* 0.8 * max(0.0, min(frac, 1.0)) with frac = processed / float(total), in
\* thousandths (line 790-791).
ScaledFrac(processed, total) ==
    LET num == IF total < 0 THEN -processed ELSE processed
        den == IF total < 0 THEN -total ELSE total
    IN  IF num <= 0 THEN 0
        ELSE IF num >= den THEN 800
        ELSE (800 * num) \div den

\* logical_progress = 0.1 + 0.8 * max(0.0, min(frac, 1.0))   (line 791)
LogicalProgress(processed, total) == 100 + ScaledFrac(processed, total)

\* One progress update as _send_progress_update gets it.
ProgressUpdate(phase, progress) == [phase |-> phase, progress |-> progress]

\* The loop over proc.stdout.splitlines() begins; job_id is the caller's.
ParseStart ==
    /\ par_pc = "idle"
    /\ par_pc' = "lines"
    /\ par_job_id' \in RequestJobIds
    /\ UNCHANGED <<workerVars, timeVars, genVars, dlVars, bufVars, supVars, total_frames, processed_frames,
                   last_reported_progress, par_sent, par_lines>>

\* A line "Number of frames: <text>": total_frames is set, or int() raises
\* ValueError and it keeps its value (lines 781-785).
LineNumberOfFrames ==
    /\ par_pc = "lines" /\ par_lines < MaxLines
    /\ par_lines' = par_lines + 1
    /\ \/ total_frames' = total_frames
       \/ \E t \in FrameTotals : total_frames' = t
    /\ UNCHANGED <<workerVars, timeVars, genVars, dlVars, bufVars, supVars, par_pc, par_job_id, processed_frames,
                   last_reported_progress, par_sent>>

\* Variant of LineProgressFrames: every parsed count is reported.
LineProgressFramesUnthrottled ==
    /\ par_pc = "lines" /\ par_lines < MaxLines
    /\ par_lines' = par_lines + 1
    /\ \/ UNCHANGED <<processed_frames, last_reported_progress, par_sent>>
       \/ \E p \in FrameCounts :
            /\ processed_frames' = p
            /\ IF total_frames # 0 /\ par_job_id # ""
                 THEN /\ last_reported_progress' = LogicalProgress(p, total_frames)
                      /\ par_sent' = Append(par_sent,
                            ProgressUpdate("inferring", LogicalProgress(p, total_frames)))
                 ELSE UNCHANGED <<last_reported_progress, par_sent>>
    /\ UNCHANGED <<workerVars, timeVars, genVars, dlVars, bufVars, supVars, par_pc, par_job_id, total_frames>>

\* A line "PROGRESS_FRAMES=<text>" (lines 786-805): int() raises ValueError
\* and nothing changes, or processed_frames is set and, with a total and a
\* job id, the update is sent when logical_progress >=
\* last_reported_progress + 0.05.
LineProgressFrames ==
    /\ par_pc = "lines" /\ par_lines < MaxLines
    /\ par_lines' = par_lines + 1
    /\ \/ UNCHANGED <<processed_frames, last_reported_progress, par_sent>>
       \/ \E p \in FrameCounts :
            /\ processed_frames' = p
            /\ IF /\ total_frames # 0 /\ par_job_id # ""
                  /\ LogicalProgress(p, total_frames) >= last_reported_progress + 50
                 THEN /\ last_reported_progress' = LogicalProgress(p, total_frames)
                      /\ par_sent' = Append(par_sent,
                            ProgressUpdate("inferring", LogicalProgress(p, total_frames)))
                 ELSE UNCHANGED <<last_reported_progress, par_sent>>
    /\ UNCHANGED <<workerVars, timeVars, genVars, dlVars, bufVars, supVars, par_pc, par_job_id, total_frames>>

\* A line "Padding generated images to original video size" (806-813): the
\* "encoding" update with progress=max(last_reported_progress, 0.9).
LinePadding ==
    /\ par_pc = "lines" /\ par_lines < MaxLines
    /\ par_lines' = par_lines + 1
    /\ par_sent' = IF par_job_id # ""
                     THEN Append(par_sent, ProgressUpdate("encoding",
                              IF last_reported_progress > 900
                                THEN last_reported_progress ELSE 900))
                     ELSE par_sent
    /\ UNCHANGED <<workerVars, timeVars, genVars, dlVars, bufVars, supVars, par_pc, par_job_id, total_frames,
                   processed_frames, last_reported_progress>>

\* Any other line (814-836): timings and the output path, no progress update.
LineOther ==
    /\ par_pc = "lines" /\ par_lines < MaxLines
    /\ par_lines' = par_lines + 1
    /\ UNCHANGED <<workerVars, timeVars, genVars, dlVars, bufVars, supVars, par_pc, par_job_id, total_frames,
                   processed_frames, last_reported_progress, par_sent>>

\* proc.stdout has no more lines.
ParseEnd ==
    /\ par_pc = "lines"
    /\ par_pc' = "done"
    /\ UNCHANGED <<workerVars, timeVars, genVars, dlVars, bufVars, supVars, par_job_id, total_frames,
                   processed_frames, last_reported_progress, par_sent, par_lines>>

ParseNext ==
    \/ ParseStart \/ LineNumberOfFrames \/ LineProgressFrames \/ LinePadding
    \/ LineOther \/ ParseEnd

ParseSpec == Init /\ [][ParseNext]_vars

(* ---------------------------------------------- worker_app: downloads *)
(* _download_to_temp (306-479): one httpx attempt per loop iteration, a     *)
(* sleep between attempts, a curl run for a RemoteProtocolError.            *)

\* Values of max_retries: the default 3, and others a caller may pass.
RetryLimits == {0, 1, 3, 6}

\* How one httpx attempt can end: the body was written (with bytes or
\* without), or an exception.  HTTPStatusError comes from raise_for_status,
\* ConnectError stands for the RequestErrors that are neither a timeout nor a
\* RemoteProtocolError, OSError for what mkstemp and f.write raise.
AttemptOutcomes ==
    {"ok", "empty", "TimeoutException", "HTTPStatusError", "ConnectError",
     "RemoteProtocolError", "OSError"}

\* The outcomes the two handlers retry (lines 380-384, 461-464).
Retried == {"TimeoutException", "HTTPStatusError", "ConnectError"}

\* How the curl run can end: exit status 0 with bytes, a non-zero exit
\* status, an empty file, or subprocess.run / getsize raising.
CurlOutcomes == {"ok", "nonzero", "empty", "Exception"}

RECURSIVE Pow2(_)
Pow2(n) == IF n = 0 THEN 1 ELSE 2 * Pow2(n - 1)

\* min(2 ** (attempt - 1), 10)   (lines 383, 463)
RetrySleep(a) == IF Pow2(a - 1) < 10 THEN Pow2(a - 1) ELSE 10

\* The call: for attempt in range(1, max_retries + 1); an empty range falls
\* through to the raise at line 479.
DlCall ==
    /\ dl_pc = "idle"
    /\ \E m \in RetryLimits :
        /\ max_retries' = m
        /\ IF m = 0
             THEN dl_pc' = "raised" /\ dl_raised' = "DownloadError" /\ dl_attempt' = 0
             ELSE dl_pc' = "attempt" /\ dl_raised' = "none" /\ dl_attempt' = 1
    /\ UNCHANGED <<workerVars, timeVars, genVars, parseVars, bufVars, supVars, dl_fails, dl_sleeps, dl_curls>>

\* Variant of DlAttempt: a timeout on the last attempt is raised as it is.
DlAttemptRaisesTimeout ==
    /\ dl_pc = "attempt"
    /\ \E o \in AttemptOutcomes :
        /\ dl_fails' = IF o = "ok" THEN dl_fails ELSE Append(dl_fails, o)
        /\ IF o = "ok" THEN dl_pc' = "returned" /\ dl_raised' = "none"
           ELSE IF o = "empty" THEN dl_pc' = "raised" /\ dl_raised' = "DownloadError"
           ELSE IF o = "OSError" THEN dl_pc' = "raised" /\ dl_raised' = "OSError"
           ELSE IF o = "RemoteProtocolError" THEN dl_pc' = "curl" /\ dl_raised' = "none"
           ELSE IF dl_attempt < max_retries THEN dl_pc' = "sleep" /\ dl_raised' = "none"
           ELSE dl_pc' = "raised" /\ dl_raised' = IF o = "TimeoutException"
                                                    THEN o ELSE "DownloadError"
        /\ dl_sleeps' = IF o \in Retried /\ dl_attempt < max_retries
                          THEN Append(dl_sleeps, RetrySleep(dl_attempt))
                          ELSE dl_sleeps
    /\ UNCHANGED <<workerVars, timeVars, genVars, parseVars, bufVars, supVars, max_retries, dl_attempt, dl_curls>>

\* One httpx attempt (329-477).  The body written with bytes: return path.
\* An empty body: DownloadError, which no handler of the loop catches.  An
\* exception of mkstemp or f.write: the file is removed and the exception
\* leaves the call (354-359).  RemoteProtocolError: the curl run.  A timeout,
\* a status error or another request error: sleep and go on if attempts are
\* left, otherwise DownloadError.
DlAttempt ==
    /\ dl_pc = "attempt"
    /\ \E o \in AttemptOutcomes :
        /\ dl_fails' = IF o = "ok" THEN dl_fails ELSE Append(dl_fails, o)
        /\ IF o = "ok" THEN dl_pc' = "returned" /\ dl_raised' = "none"
           ELSE IF o = "empty" THEN dl_pc' = "raised" /\ dl_raised' = "DownloadError"
           ELSE IF o = "OSError" THEN dl_pc' = "raised" /\ dl_raised' = "OSError"
           ELSE IF o = "RemoteProtocolError" THEN dl_pc' = "curl" /\ dl_raised' = "none"
           ELSE IF dl_attempt < max_retries THEN dl_pc' = "sleep" /\ dl_raised' = "none"
           ELSE dl_pc' = "raised" /\ dl_raised' = "DownloadError"
        /\ dl_sleeps' = IF o \in Retried /\ dl_attempt < max_retries
                          THEN Append(dl_sleeps, RetrySleep(dl_attempt))
                          ELSE dl_sleeps
    /\ UNCHANGED <<workerVars, timeVars, genVars, parseVars, bufVars, supVars, max_retries, dl_attempt, dl_curls>>

\* asyncio.sleep ends; continue with the next attempt.
DlSleepDone ==
    /\ dl_pc = "sleep"
    /\ dl_pc' = "attempt"
    /\ dl_attempt' = dl_attempt + 1
    /\ UNCHANGED <<workerVars, timeVars, genVars, parseVars, bufVars, supVars, max_retries, dl_fails, dl_sleeps,
                   dl_curls, dl_raised>>

\* The curl run (396-451): return path, or DownloadError on every failure.
DlCurl ==
    /\ dl_pc = "curl"
    /\ dl_curls' = dl_curls + 1
    /\ \E o \in CurlOutcomes :
        IF o = "ok" THEN dl_pc' = "returned" /\ dl_raised' = "none"
        ELSE dl_pc' = "raised" /\ dl_raised' = "DownloadError"
    /\ UNCHANGED <<workerVars, timeVars, genVars, parseVars, bufVars, supVars, max_retries, dl_attempt, dl_fails,
                   dl_sleeps>>

DlNext == DlCall \/ DlAttempt \/ DlSleepDone \/ DlCurl

DlSpec == Init /\ [][DlNext]_vars

(* ------------------------------------------- worker_app: buffer worker *)
(* _buffer_worker_loop (160-303) once its configuration is complete: one    *)
(* task that sends a heartbeat, claims, runs the job through /generate,     *)
(* reports the job's status and sleeps.  buf_trace holds the requests of    *)
(* the current iteration.                                                   *)

\* The jobs a claim can return: with or without buffer_job_id and
\* musetalk_job_id (read at 233-234), with or without the fields gen_body
\* reads (244-251).
BufJobs == [present : {TRUE}, has_ids : BOOLEAN, has_urls : BOOLEAN]

\* How a request followed by raise_for_status() can end: a 2xx answer,
\* another answer (HTTPStatusError), or an exception of the request itself.
CallResults == {"2xx", "HTTPStatusError", "ConnectError"}

\* One request of the loop: its kind, the status and error fields of its
\* body, and how it ended.
BufEvent(ev, st, err, res) == [ev |-> ev, status |-> st, error |-> err, result |-> res]

\* except Exception as exc: last_error = repr(exc)   (294-301), then the
\* sleep at 303.
BufOuterExcept(exc) ==
    /\ last_error' = exc
    /\ buf_pc' = "sleep"

\* Variant of BufHeartbeat: without raise_for_status(), a rejected heartbeat
\* is followed by the claim.
BufHeartbeatIgnoresRejection ==
    /\ buf_pc = "heartbeat"
    /\ \E r \in CallResults :
        /\ buf_trace' = Append(buf_trace, BufEvent("heartbeat", buf_status, last_error, r))
        /\ IF r = "ConnectError" THEN BufOuterExcept(r)
           ELSE /\ last_error' = last_error
                /\ buf_pc' = IF buf_status = "idle" THEN "claim" ELSE "sleep"
    /\ UNCHANGED <<workerVars, timeVars, genVars, parseVars, dlVars, supVars, buf_status, buf_job,
                   job_ok, job_error, buf_gen>>

\* The heartbeat (207-222): status and last_error are sent as they are;
\* raise_for_status() raises unless the answer is 2xx.
BufHeartbeat ==
    /\ buf_pc = "heartbeat"
    /\ \E r \in CallResults :
        /\ buf_trace' = Append(buf_trace, BufEvent("heartbeat", buf_status, last_error, r))
        /\ IF r # "2xx" THEN BufOuterExcept(r)
           ELSE /\ last_error' = last_error
                /\ buf_pc' = IF buf_status = "idle" THEN "claim" ELSE "sleep"
    /\ UNCHANGED <<workerVars, timeVars, genVars, parseVars, dlVars, supVars, buf_status, buf_job,
                   job_ok, job_error, buf_gen>>

\* The claim (224-235): raise_for_status(), data.get("job"), `if job:`, then
\* job["buffer_job_id"] and job["musetalk_job_id"], whose KeyError is outside
\* the inner try.
BufClaim ==
    /\ buf_pc = "claim"
    /\ \/ \E r \in CallResults \ {"2xx"} :
            /\ buf_trace' = Append(buf_trace, BufEvent("claim", "none", "none", r))
            /\ BufOuterExcept(r)
            /\ UNCHANGED <<buf_job, job_ok, job_error>>
       \/ /\ buf_trace' = Append(buf_trace, BufEvent("claim", "none", "none", "2xx"))
          /\ buf_job' = NoBufJob
          /\ buf_pc' = "sleep"
          /\ UNCHANGED <<last_error, job_ok, job_error>>
       \/ \E j \in BufJobs :
            /\ buf_trace' = Append(buf_trace, BufEvent("claim", "none", "none", "2xx"))
            /\ buf_job' = j
            /\ IF j.has_ids
                 THEN /\ buf_pc' = "job_start"
                      /\ job_ok' = FALSE
                      /\ job_error' = "none"
                      /\ last_error' = last_error
                 ELSE BufOuterExcept("KeyError") /\ UNCHANGED <<job_ok, job_error>>
    /\ buf_gen' = "none"
    /\ UNCHANGED <<workerVars, timeVars, genVars, parseVars, dlVars, supVars, buf_status>>

\* status = "busy"; last_error = None; gen_body = {...}; the /generate
\* request goes out (239-255).  A job without its URLs raises KeyError at
\* 246, which the inner handler catches (258-268).
BufJobStart ==
    /\ buf_pc = "job_start"
    /\ buf_status' = "busy"
    /\ IF buf_job.has_urls
         THEN /\ buf_pc' = "gen_wait"
              /\ buf_trace' = Append(buf_trace, BufEvent("generate", "none", "none", "none"))
              /\ last_error' = "none"
              /\ UNCHANGED <<job_error, buf_gen>>
         ELSE /\ buf_pc' = "report"
              /\ buf_trace' = buf_trace
              /\ buf_gen' = "KeyError"
              /\ job_error' = "KeyError"
              /\ last_error' = "KeyError"
    /\ UNCHANGED <<workerVars, timeVars, genVars, parseVars, dlVars, supVars, buf_job, job_ok>>

\* Variant of BufGenDone: a heartbeat with the current status is sent when
\* the /generate call has ended.
BufGenDoneHeartbeats ==
    /\ buf_pc = "gen_wait"
    /\ \E r \in CallResults :
        /\ buf_gen' = r
        /\ job_ok' = (r = "2xx")
        /\ job_error' = IF r = "2xx" THEN job_error ELSE r
        /\ last_error' = IF r = "2xx" THEN last_error ELSE r
    /\ buf_trace' = Append(buf_trace, BufEvent("heartbeat", buf_status, last_error, "2xx"))
    /\ buf_pc' = "report"
    /\ UNCHANGED <<workerVars, timeVars, genVars, parseVars, dlVars, supVars, buf_status, buf_job>>

\* /generate answered or the request raised (252-268): job_ok = True after
\* raise_for_status(), otherwise job_error = last_error = repr(job_exc).
BufGenDone ==
    /\ buf_pc = "gen_wait"
    /\ \E r \in CallResults :
        /\ buf_gen' = r
        /\ job_ok' = (r = "2xx")
        /\ job_error' = IF r = "2xx" THEN job_error ELSE r
        /\ last_error' = IF r = "2xx" THEN last_error ELSE r
    /\ buf_pc' = "report"
    /\ UNCHANGED <<workerVars, timeVars, genVars, parseVars, dlVars, supVars, buf_status, buf_job,
                   buf_trace>>

\* Variant of BufReport: without the finally block.
BufReportNoFinally ==
    /\ buf_pc = "report"
    /\ \E r \in CallResults :
        buf_trace' = Append(buf_trace,
            BufEvent("status", IF job_ok THEN "succeeded" ELSE "failed",
                     IF job_ok THEN "none" ELSE job_error, r))
    /\ buf_pc' = "sleep"
    /\ UNCHANGED <<workerVars, timeVars, genVars, parseVars, dlVars, supVars, buf_status, last_error,
                   buf_job, job_ok, job_error, buf_gen>>

\* The final status report (271-293): the request is sent; whatever it is
\* answered (there is no raise_for_status here), and if it raises
\* (ConnectError), status = "idle" (finally) and the iteration ends in the
\* sleep.
BufReport ==
    /\ buf_pc = "report"
    /\ \E r \in CallResults :
        buf_trace' = Append(buf_trace,
            BufEvent("status", IF job_ok THEN "succeeded" ELSE "failed",
                     IF job_ok THEN "none" ELSE job_error, r))
    /\ buf_status' = "idle"
    /\ buf_pc' = "sleep"
    /\ UNCHANGED <<workerVars, timeVars, genVars, parseVars, dlVars, supVars, last_error, buf_job,
                   job_ok, job_error, buf_gen>>

\* await asyncio.sleep(interval_sec) ends (303); next iteration.
BufSleepDone ==
    /\ buf_pc = "sleep"
    /\ buf_pc' = "heartbeat"
    /\ buf_trace' = <<>>
    /\ UNCHANGED <<workerVars, timeVars, genVars, parseVars, dlVars, supVars, buf_status, last_error,
                   buf_job, job_ok, job_error, buf_gen>>

BufNext ==
    \/ BufHeartbeat \/ BufClaim \/ BufJobStart \/ BufGenDone \/ BufReport
    \/ BufSleepDone

BufSpec == Init /\ [][BufNext]_vars

(* ------------------------------------------------------ worker_supervisor *)
(* heartbeat_loop of worker_supervisor.py (44-101): the foreground loop of  *)
(* the wrapper that started the app process.  The app process can exit at   *)
(* any moment; the loop looks at it only at the top of an iteration.        *)

\* What the loop's frame is for an action of the supervisor.
nonSup == <<workerVars, timeVars, genVars, parseVars, dlVars, bufVars>>

\* One request of the supervisor and how it ended.
SupEvent(ev, res) == [ev |-> ev, result |-> res]

\* The app process exits (a crash, an out-of-memory kill).
AppDies ==
    /\ app_alive /\ sup_pc # "exited"
    /\ app_alive' = FALSE
    /\ UNCHANGED <<nonSup, sup_pc, sup_exit, sup_job, sup_trace>>

\* if app_process.poll() is not None: sys.exit(1)   (lines 47-49)
SupCheck ==
    /\ sup_pc = "check"
    /\ IF app_alive
         THEN sup_pc' = "heartbeat" /\ sup_exit' = sup_exit /\ sup_trace' = <<>>
         ELSE sup_pc' = "exited" /\ sup_exit' = 1 /\ sup_trace' = sup_trace
    /\ UNCHANGED <<nonSup, app_alive, sup_job>>

\* Variant of SupHeartbeat: an exception of the heartbeat request is not
\* caught and ends the supervisor.
SupHeartbeatUncaught ==
    /\ sup_pc = "heartbeat"
    /\ \E r \in CallResults :
        /\ sup_trace' = Append(sup_trace, SupEvent("heartbeat", r))
        /\ IF r = "ConnectError"
             THEN sup_pc' = "exited" /\ sup_exit' = 1
             ELSE sup_pc' = "claim" /\ sup_exit' = sup_exit
    /\ UNCHANGED <<nonSup, app_alive, sup_job>>

\* A. Heartbeat (52-60): the answer is not looked at ("HTTPStatusError"
\* stands for an answer that is not 2xx), an exception is logged.
SupHeartbeat ==
    /\ sup_pc = "heartbeat"
    /\ \E r \in CallResults :
        sup_trace' = Append(sup_trace, SupEvent("heartbeat", r))
    /\ sup_pc' = "claim"
    /\ UNCHANGED <<nonSup, app_alive, sup_exit, sup_job>>

\* B. Claim (63-75, 98-99): an exception of the request or of r.json(), an
\* answer other than 200, no job, or a job; job['musetalk_job_id'] at line
\* 75 raises KeyError for a job without it, which the handler at 98 catches.
SupClaim ==
    /\ sup_pc = "claim"
    /\ \/ \E r \in CallResults \ {"2xx"} :
            /\ sup_trace' = Append(sup_trace, SupEvent("claim", r))
            /\ sup_pc' = "sleep"
            /\ sup_job' = sup_job
       \/ /\ sup_trace' = Append(sup_trace, SupEvent("claim", "2xx"))
          /\ sup_pc' = "sleep"
          /\ sup_job' = NoBufJob
       \/ \E j \in BufJobs :
            /\ sup_trace' = Append(sup_trace, SupEvent("claim", "2xx"))
            /\ sup_job' = j
            /\ sup_pc' = IF j.has_ids THEN "generate" ELSE "sleep"
    /\ UNCHANGED <<nonSup, app_alive, sup_exit>>

\* C. The job is sent to the local /generate (80-96): the json body raises
\* KeyError for a job without its URLs, the request raises when the app does
\* not answer (it cannot answer once it has exited), or the app answers;
\* every exception is logged.
SupGenerate ==
    /\ sup_pc = "generate"
    /\ IF ~sup_job.has_urls
         THEN sup_trace' = sup_trace
         ELSE \E r \in (IF app_alive THEN CallResults ELSE {"ConnectError"}) :
                sup_trace' = Append(sup_trace, SupEvent("generate", r))
    /\ sup_pc' = "sleep"
    /\ UNCHANGED <<nonSup, app_alive, sup_exit, sup_job>>

\* time.sleep(2) ends (101); next iteration.
SupSleepDone ==
    /\ sup_pc = "sleep"
    /\ sup_pc' = "check"
    /\ UNCHANGED <<nonSup, app_alive, sup_exit, sup_job, sup_trace>>

SupNext ==
    \/ AppDies \/ SupCheck \/ SupHeartbeat \/ SupClaim \/ SupGenerate
    \/ SupSleepDone

SupSpec == Init /\ [][SupNext]_vars

\* The worker from the entry of main() on.
BootNext == KeyCheck \/ HbThreadStart \/ Next

BootSpec == BootInit /\ [][BootNext]_vars

(* Fairness.  Both threads are scheduled by the operating system, and every  *)
(* network call of the heartbeat thread has a 10 s timeout, so each of its   *)
(* steps is eventually taken; the control loop leaves STATE_LOCK between any *)
(* two critical sections for a network call or a sleep, so a waiting         *)
(* heartbeat thread gets the lock (strong fairness of HbAcquire).  Nothing   *)
(* is assumed of the control loop outside its critical sections: it may stay *)
(* in a claim, a backoff, a poll sleep or the /generate call for ever.       *)
HbSteps ==
    \/ HbClientNew \/ HbReadStatus \/ HbReadJob \/ HbRelease
    \/ HbPost \/ HbResponse \/ HbSleepDone

MainInLock ==
    \/ NoJobCheck
    \/ BusyWriteStatus \/ BusyWriteJob \/ BusyRelease
    \/ IdleWriteStatus \/ IdleWriteJob \/ IdleRelease
    \/ OuterWriteStatus \/ OuterWriteJob \/ OuterRelease

FairSpec ==
    /\ Spec
    /\ WF_vars(HbSteps)
    /\ SF_vars(HbAcquire)
    /\ WF_vars(MainInLock)

(* Fairness of the control loop as well.  Its network calls carry timeouts   *)
(* (claim 15 s, progress 10 s, /generate 600 s) and its sleeps end, so each   *)
(* of its steps is eventually taken; the heartbeat thread holds STATE_LOCK    *)
(* only for two reads and then sleeps or posts, so a waiting control loop     *)
(* gets the lock (strong fairness of its acquisitions).  Weak fairness of     *)
(* ClNext covers that of MainInLock: inside a critical section the only       *)
(* enabled step of the control loop is the next one of that section.          *)
MainAcquire ==
    NoJobAcquire \/ BusyAcquire \/ IdleAcquire \/ OuterAcquire

LiveSpec ==
    /\ Spec
    /\ WF_vars(HbSteps)
    /\ SF_vars(HbAcquire)
    /\ WF_vars(ClNext)
    /\ SF_vars(MainAcquire)

(* ================================================================ claims *)

\* The control loop has claimed `job`, finished the busy write, and
\* process_job has not returned.
BusyPhase == ProcessingPcs \cup {"busy_unlock"}

\* The control loop is in a claim request, a claim backoff or a poll sleep.
IdlePhase == {"claim_send", "claim_wait", "claim_backoff", "poll_sleep", "outer_sleep"}

\* C1: whenever the control loop does not hold STATE_LOCK (so whenever another
\* thread observes WORKER_STATE under the lock), current_job_id is non-null
\* iff status is busy, and the state is {idle, null} or {busy, id of the
\* claimed job}.
C1_StateConsistent ==
    STATE_LOCK # "main" =>
        \/ status = "idle" /\ current_job_id = None
        \/ /\ status = "busy"
           /\ current_job_id \in JobIds
           /\ job.present
           /\ current_job_id = job.musetalk_job_id

\* C1 witness: the heartbeat thread holds the lock and sees a busy worker.
C1_Witness ==
    STATE_LOCK = "hb" /\ hbpc = "hb_r1" /\ status = "busy" /\ current_job_id = 2

\* C2: from the end of the busy write until process_job returns the state is
\* {busy, job id}; in a claim request, a claim backoff and a poll sleep it is
\* {idle, null}.
C2_StateTracksPhase ==
    /\ clpc \in BusyPhase =>
        status = "busy" /\ job.has_id /\ current_job_id = job.musetalk_job_id
    /\ clpc \in IdlePhase =>
        status = "idle" /\ current_job_id = None

\* C2 witness: a second claim is in flight after a job was processed.
C2_Witness ==
    clpc = "claim_wait" /\ job.present /\ pjResult /\ status = "idle"

\* C3: the pair in a heartbeat request is the pair WORKER_STATE held when the
\* heartbeat read began, and it is never {busy, null} nor {idle, id}.
C3_HeartbeatSnapshot ==
    hbpc = "hb_wait" =>
        /\ <<current_status, current_job>> = hbSnap
        /\ (current_status = "busy") <=> (current_job # None)

\* C3 witness: a busy heartbeat is in flight while the control loop is half
\* way through the idle write.
C3_Witness ==
    /\ hbpc = "hb_wait" /\ current_status = "busy" /\ current_job = 2
    /\ clpc = "idle_w2" /\ status = "idle" /\ current_job_id = 2

\* C4, second half as stated: every heartbeat request that goes out while a
\* job is being processed carries busy and the id of that job.
C4_SentDuringJobIsBusy ==
    [][(hbpc = "hb_send" /\ hbpc' = "hb_wait" /\ clpc \in ProcessingPcs) =>
            (current_status = "busy" /\ current_job = job.musetalk_job_id)]_vars

\* C4 as stated: heartbeats keep being sent whatever the control loop does,
\* and those sent during job execution carry busy and the job's id.
C4_AsStated ==
    /\ []<>(hbpc = "hb_wait")
    /\ C4_SentDuringJobIsBusy

\* C4 as amended: heartbeats keep being sent whatever the control loop does;
\* while the control loop stays in /generate a heartbeat with busy and the
\* job's id goes out; and every heartbeat whose read of WORKER_STATE happened
\* during job execution carries busy and that job's id.
C4_HeartbeatNotGated ==
    /\ []<>(hbpc = "hb_wait")
    /\ (clpc = "gen_wait") ~>
            \/ clpc # "gen_wait"
            \/ /\ hbpc = "hb_wait"
               /\ current_status = "busy"
               /\ current_job = job.musetalk_job_id
    /\ [](hbpc = "hb_wait" /\ hbReadJob # None =>
            current_status = "busy" /\ current_job = hbReadJob)

\* C4 witness: a busy heartbeat is in flight while /generate is running.
C4_Witness ==
    /\ clpc = "gen_wait" /\ hbpc = "hb_wait" /\ hbReadJob = 1
    /\ current_status = "busy" /\ current_job = 1

\* C5: no claim request is in flight while a claimed job is unfinished, at
\* most one job is unfinished, and /generate is called at most once for it.
C5_OneJobInFlight ==
    /\ Cardinality(inFlight) <= 1
    /\ clpc \in {"claim_send", "claim_wait", "claim_backoff"} => inFlight = {}
    /\ genCalls <= 1
    /\ clpc \in ProcessingPcs => inFlight = {job.musetalk_job_id}

\* C5 witness: /generate has failed for job 2 and was not called again; the
\* job is still the only one unfinished.
C5_Witness ==
    /\ clpc = "pj_term_wait" /\ genCalls = 1 /\ inFlight = {2}
    /\ trace[Len(trace)].status = "failed"

\* C6: the heartbeat thread never ends; at most one client is created between
\* two heartbeat requests; after a transport failure the next request goes out.
C6_HeartbeatNeverStops ==
    /\ [](hbpc # "hb_dead")
    /\ [](hbCreates <= 1)
    /\ (hbpc = "hb_client_new" /\ hbLast = "transport_exc") ~> (hbpc = "hb_wait")

\* C6 witness: a request is in flight after one that raised a non-transport
\* exception.
C6_Witness ==
    hbpc = "hb_wait" /\ hbLast = "other_exc"

\* C7: a heartbeat request never goes out on a client that raised a transport
\* exception or was closed; after a transport exception exactly one new client
\* is created before the next request, after a non-200 none.
C7_HeartbeatSessionRebuilt ==
    /\ hbpc = "hb_wait" => hbOpen /\ ~hbFaulted
    /\ (hbpc = "hb_send" /\ hbLast = "transport_exc") => hbCreates = 1
    /\ (hbpc = "hb_send" /\ hbLast = "non200") => hbCreates = 0

\* C7 witness: the heartbeat after a transport failure is about to be sent.
C7_Witness ==
    hbpc = "hb_send" /\ hbLast = "transport_exc" /\ hbCreates = 1 /\ hbOpen

\* C8: a claim request never goes out on a control-loop client on which a
\* claim or a progress report raised a transport exception.
C8_ClaimOnFreshSession ==
    clpc = "claim_wait" => ~clFaulted

\* C9: process_job is left only towards the idle write, and whenever a claim
\* is started the state is {idle, null}.
C9_ResetOnEveryExit ==
    [][/\ (clpc \in ProcessingPcs /\ clpc' \notin ProcessingPcs) => clpc' = "idle_lock"
       /\ (clpc' = "claim_send") => (status' = "idle" /\ current_job_id' = None)]_vars

\* C9 witness: the loop is back at the top, idle, after a job whose /generate
\* call was made and whose terminal report says failed.
C9_Witness ==
    /\ clpc = "loop_top" /\ Len(trace) = 3 /\ trace[3].status = "failed"
    /\ status = "idle" /\ current_job_id = None

\* C10: at most 3 claim requests per claim_job call; the k-th failed attempt
\* is followed by a sleep of 2^(k-1) s; after the third failure claim_job
\* returns None.
C10_ClaimBackoff ==
    /\ claimPosts <= 3
    /\ Len(claimSleeps) <= 3
    /\ \A k \in 1..Len(claimSleeps) : claimSleeps[k] = 2 ^ (k - 1)
    /\ clpc = "claim_backoff" =>
        Len(claimSleeps) = claimPosts /\ clSleep = 2 ^ (claimPosts - 1)
    /\ (Len(claimSleeps) = 3 /\ clpc # "claim_backoff") =>
        ~job.present /\ clpc \in {"nojob_lock", "nojob_cs", "poll_sleep", "loop_top"}

\* C10 witness: claim_job has returned None after three failed attempts.
C10_Witness ==
    clpc = "nojob_lock" /\ claimSleeps = <<1, 2, 4>> /\ claimPosts = 3 /\ ~job.present

\* The control loop has left claim_job for the poll-sleep branch of main.
NoJobPcs == {"nojob_lock", "nojob_cs", "poll_sleep"}

\* The control loop is inside claim_job.
ClaimPcs == {"claim_send", "claim_wait", "claim_backoff"}

\* C11: claim_job never raises into main: whatever the request ends in, the
\* control loop leaves claim_job only by a return (a job, or None), the only
\* exception after a claim is main's own KeyError on a returned job without
\* musetalk_job_id, and a claim whose three attempts raised ends in the poll
\* sleep.
C11_ClaimNeverRaises ==
    [][/\ (clpc \in ClaimPcs /\ clpc' \notin ClaimPcs) =>
            /\ clpc' = AfterClaim(job')
            /\ (job'.present <=> claimLast' = "job")
       /\ (clpc \in ClaimPcs /\ clpc' = "outer_except") =>
            (claimLast' = "job" /\ ~job'.has_id)
       /\ (clpc = "claim_backoff" /\ clpc' \notin ClaimPcs) =>
            (clpc' = "nojob_lock" /\ ~job'.present)]_vars

\* C11 witness: claim_job has returned None after an unparsable body on the
\* third attempt.
C11_Witness ==
    clpc = "nojob_lock" /\ claimPosts = 3 /\ claimLast = "other_exc" /\ ~job.present

\* C12: once a claim request was answered with a non-200, an error body or
\* job=null, claim_job has returned None: no further request, no backoff
\* sleep after that answer (one sleep for each earlier attempt, which raised).
C12_FailureAnswerNoRetry ==
    claimLast \in ClaimFailures =>
        /\ clpc \in NoJobPcs \cup {"loop_top"}
        /\ ~job.present
        /\ Len(claimSleeps) = claimPosts - 1
        /\ clpc = "nojob_lock" => clSleep = 0

\* C12 witness: the first request of a claim_job call was answered with an
\* error body and claim_job has returned.
C12_Witness ==
    clpc = "nojob_lock" /\ claimLast = "error_body" /\ claimPosts = 1 /\ claimSleeps = <<>>

\* /generate raised or timed out, answered non-200, or answered a status that
\* is not a success status.
GenFailures == {"failed_status", "non200", "exception"}

\* C13: the control loop never ends, and once /generate has failed for the
\* current job the state returns to {idle, null} and the next claim request
\* goes out.
C13_FailedJobDoesNotStop ==
    /\ [](clpc # "cl_dead")
    /\ (genResp.outcome \in GenFailures) ~>
            (clpc = "claim_wait" /\ status = "idle" /\ current_job_id = None)

\* C13 witness: after an exception of /generate the loop is back at its top,
\* idle, about to claim.
C13_Witness ==
    /\ clpc = "loop_top" /\ genResp.outcome = "exception"
    /\ status = "idle" /\ current_job_id = None

\* C14: after an exception in main's loop body (a claimed job without
\* musetalk_job_id) the loop goes on: the state is {idle, null} during the
\* POLL_INTERVAL sleep that follows, and a later claim request goes out.
C14_UnexpectedExceptionRecovers ==
    /\ [](clpc # "cl_dead")
    /\ [](clpc = "outer_sleep" =>
            status = "idle" /\ current_job_id = None /\ clSleep = POLL_INTERVAL)
    /\ (clpc = "outer_except") ~> (clpc = "outer_sleep")
    /\ (clpc = "outer_sleep") ~> (clpc = "claim_wait")

\* C14 witness: a claim is in flight on the client created after the handler
\* ran for a job without musetalk_job_id.
C14_Witness ==
    /\ clpc = "claim_wait" /\ job.present /\ ~job.has_id
    /\ status = "idle" /\ current_job_id = None

\* process_job has returned and main is resetting the state.
AfterJobPcs == {"idle_lock", "idle_w1", "idle_w2", "idle_unlock"}

\* The progress reports of the current job, in the order they were sent.
Reports == SelectSeq(trace, LAMBDA e : e.ev = "report")

\* Its reports with a terminal status.
Terminals == SelectSeq(trace, LAMBDA e : e.ev = "report" /\ e.status # "running")

\* C15: the progress fractions of the reports sent for one job never decrease.
C15_ProgressNeverDecreases ==
    \A i, k \in 1..Len(Reports) : i < k => Reports[i].progress <= Reports[k].progress

C17_NoSelfRetry ==
    [][/\ genCalls' <= 1
       /\ Len(SelectSeq(trace', LAMBDA e : e.ev = "generate")) = genCalls'
       /\ (clpc = "pj_term_wait" /\ clpc' # clpc) => clpc' = "idle_lock"
       /\ (clpc \in AfterJobPcs \cup {"loop_top"} /\ trace' # trace) =>
            (clpc' = "claim_send" /\ trace' = <<>>)]_vars

\* C17 witness: a claim request is in flight after a job whose /generate
\* call failed.
C17_Witness ==
    clpc = "claim_wait" /\ job.present /\ job.has_id /\ job.has_urls /\ ~pjResult

\* C18: whatever a report_progress request ends in, process_job goes on: after
\* the start report to the /generate call, after the terminal report to its
\* return, with True iff /generate answered success; and the state is idle
\* again once main is back at the top of its loop.
C18_ReportFailureIgnored ==
    /\ [][/\ (clpc = "pj_start_wait" /\ clpc' # clpc) =>
                (clpc' = "pj_gen_body" /\ trace' = trace)
          /\ (clpc = "pj_term_wait" /\ clpc' # clpc) =>
                /\ clpc' = "idle_lock"
                /\ pjResult' = (genResp.outcome = "succeeded")]_vars
    /\ [](clpc = "loop_top" /\ genResp.outcome = "succeeded" =>
            pjResult /\ status = "idle" /\ current_job_id = None)

\* C18 witness: the terminal report of a succeeded job raised, and
\* process_job has returned True.
C18_Witness ==
    /\ clpc = "idle_lock" /\ genResp.outcome = "succeeded"
    /\ reportLast = "transport_exc" /\ pjResult

\* C19: at most one start report and one terminal report are sent for a job,
\* whatever the requests end in: after a failed start report the job has one
\* report, after a failed terminal report it has two.
C19_ReportAtMostOnce ==
    /\ Len(SelectSeq(trace, LAMBDA e : e.ev = "report" /\ e.status = "running")) <= 1
    /\ Len(Terminals) <= 1
    /\ clpc \in {"pj_gen_body", "gen_wait"} => Len(Reports) = 1
    /\ clpc \in AfterJobPcs => Len(Reports) = 2

\* C19 witness: the terminal report got a non-200 and was not sent again.
C19_Witness ==
    clpc = "idle_lock" /\ reportLast = "non200" /\ Len(Reports) = 2

\* What kind of event an entry of the trace is.
Kind(e) ==
    IF e.ev = "generate" THEN "generate"
    ELSE IF e.status = "running" THEN "running"
    ELSE "terminal"

\* The kinds of the events of the current job, in order.
Kinds == [i \in 1..Len(trace) |-> Kind(trace[i])]

\* Sequence a is an initial part of sequence b.
IsPrefix(a, b) ==
    /\ Len(a) <= Len(b)
    /\ \A i \in 1..Len(a) : a[i] = b[i]

\* C20 as stated: the events of every processed job are the running report,
\* then the /generate call, then the terminal report.
C20_AsStated ==
    /\ IsPrefix(Kinds, <<"running", "generate", "terminal">>)
    /\ clpc \in AfterJobPcs => Kinds = <<"running", "generate", "terminal">>

\* C20 as amended: the running report comes first and the terminal report
\* last; between them the /generate call is made, unless the job has no
\* video_url or audio_url, in which case no /generate call is made at all.
C20_EventOrder ==
    /\ \/ IsPrefix(Kinds, <<"running", "generate", "terminal">>)
       \/ ~job.has_urls /\ Kinds = <<"running", "terminal">>
    /\ (clpc \in AfterJobPcs /\ job.has_urls) =>
            Kinds = <<"running", "generate", "terminal">>
    /\ (clpc \in AfterJobPcs /\ ~job.has_urls) =>
            Kinds = <<"running", "terminal">>
    /\ (trace # <<>>) => trace[1] = Report("running", 5, "downloading")

\* C20 witness: the terminal report is in flight after the running report and
\* the /generate call.
C20_Witness ==
    clpc = "pj_term_wait" /\ Kinds = <<"running", "generate", "terminal">>

\* The value a report's payload carries under key k; "absent" when the
\* payload has no such key.
Carried(r, k) == IF k \in DOMAIN r THEN r[k] ELSE "absent"

\* /generate answered non-200 with a structured failure body.
StructuredFailure == genResp.outcome = "non200" /\ genResp.error_type # "none"

\* C21: after a structured failure body from /generate, the failure report
\* carries the body's error_type, stage and retryable values.
C21_StructuredFailureSurfaced ==
    StructuredFailure =>
        /\ Carried(Terminals[1], "error_type") = genResp.error_type
        /\ Carried(Terminals[1], "stage") = genResp.stage
        /\ Carried(Terminals[1], "retryable") = genResp.retryable

\* C22: a failure report carries retryable=true when the local endpoint
\* could not be reached or timed out, and retryable=false when the endpoint
\* reported failure without a structured error.
C22_RetryableClassified ==
    /\ (genResp.outcome = "exception" /\ genResp.exc \in {"ConnectError", "ReadTimeout"}) =>
            Carried(Terminals[1], "retryable") = "true"
    /\ (\/ genResp.outcome = "failed_status"
        \/ genResp.outcome = "non200" /\ genResp.error_type = "none") =>
            Carried(Terminals[1], "retryable") = "false"

\* C23 as stated: after a 200 answer with a status that is not a success
\* status, the terminal report is failed and its error text is the answer's
\* error field if present, otherwise its error_message field, otherwise the
\* default.
C23_AsStated ==
    genResp.outcome = "failed_status" =>
        /\ Terminals[1].status = "failed"
        /\ Terminals[1].error =
               IF genResp.error # "none" THEN <<genResp.error>>
               ELSE IF genResp.error_message # "none" THEN <<genResp.error_message>>
               ELSE <<"Unknown error from /generate">>

\* C23 as amended: the error text is the answer's error field if present and
\* not empty, otherwise its error_message field if present and not empty,
\* otherwise the default.
C23_FailedStatusErrorText ==
    genResp.outcome = "failed_status" =>
        /\ Terminals[1].status = "failed"
        /\ Terminals[1].error =
               IF genResp.error \notin {"none", ""} THEN <<genResp.error>>
               ELSE IF genResp.error_message \notin {"none", ""}
                    THEN <<genResp.error_message>>
               ELSE <<"Unknown error from /generate">>

\* C23 witness: the answer had no error field, and the failed report that is
\* in flight carries its error_message.
C23_Witness ==
    /\ clpc = "pj_term_wait" /\ genResp.outcome = "failed_status"
    /\ genResp.error = "none" /\ genResp.error_message = "bad media"
    /\ Terminals[1].status = "failed" /\ Terminals[1].error = <<"bad media">>

\* C24: without an API key the process exits with a non-zero status before
\* the heartbeat thread is started: no heartbeat client is ever created, no
\* heartbeat, claim or progress request is ever sent.
C24_NoKeyNoTraffic ==
    API_KEY = "" =>
        /\ clpc \in {"start", "exited"}
        /\ clpc = "exited" => exit_code # Running /\ exit_code # 0
        /\ hbpc = "hb_unstarted"
        /\ hbCreates = 0 /\ hbLast = "none" /\ ~hbOpen
        /\ claimPosts = 0 /\ claimLast = "none"
        /\ trace = <<>> /\ reportLast = "none"

\* C24 witness: the process has exited with status 1 for want of a key.
C24_Witness == API_KEY = "" /\ clpc = "exited" /\ exit_code = 1

\* C25: when claim_job has returned no job the control loop is idle, issues
\* no claim request, and leaves the no-job branch only at the end of a sleep
\* of POLL_INTERVAL seconds, for the top of the loop.
C25_PollSleepBetweenClaims ==
    /\ [](clpc \in NoJobPcs => status = "idle" /\ current_job_id = None)
    /\ [][/\ (clpc \in ClaimPcs /\ clpc' \notin ClaimPcs /\ ~job'.present) =>
                clpc' = "nojob_lock"
          /\ (clpc \in NoJobPcs) => claimPosts' = claimPosts
          /\ (clpc \in NoJobPcs /\ clpc' \notin NoJobPcs) =>
                /\ clpc = "poll_sleep" /\ clSleep = POLL_INTERVAL
                /\ clpc' = "loop_top"]_vars

\* C25 witness: the control loop sleeps POLL_INTERVAL after a claim that was
\* answered with job=null.
C25_Witness ==
    /\ clpc = "poll_sleep" /\ clSleep = POLL_INTERVAL
    /\ claimLast = "job_null" /\ status = "idle"

\* The last second of a poll interval: both loops sleep and nothing more is
\* sent in this interval.
IntervalEnd == now % POLL_INTERVAL = POLL_INTERVAL - 1

\* C26 as stated: in every poll interval exactly 2 heartbeats are sent and
\* exactly one claim is attempted.
C26_AsStated == IntervalEnd => (tBeats = 2 /\ tClaims = 1)

\* C26 as amended: in every poll interval exactly 1 heartbeat is sent and
\* exactly one claim is attempted.
C26_OneBeatPerInterval == IntervalEnd => (tBeats = 1 /\ tClaims = 1)

\* C26 witness: the tenth poll interval is about to end.
C26_Witness ==
    /\ now = MaxPolls * POLL_INTERVAL - 1
    /\ tBeats = 1 /\ tClaims = 1 /\ tclpc = "sleep" /\ thbpc = "sleep"

\* Where the control loop is inside a `with STATE_LOCK:` block.
MainCritical ==
    {"nojob_cs", "busy_w1", "busy_w2", "busy_unlock", "idle_w1", "idle_w2",
     "idle_unlock", "outer_w1", "outer_w2", "outer_unlock"}

\* Where the heartbeat thread is inside its `with STATE_LOCK:` block.
HbCritical == {"hb_r1", "hb_r2", "hb_unlock"}

\* Where the control loop has a request in flight or sleeps.
MainBlocked ==
    {"claim_wait", "pj_start_wait", "gen_wait", "pj_term_wait",
     "claim_backoff", "poll_sleep", "outer_sleep"}

\* Where the heartbeat thread has a request in flight or sleeps.
HbBlocked == {"hb_wait", "hb_sleep"}

\* C27: a thread holds STATE_LOCK exactly while it is inside a block that
\* reads or writes WORKER_STATE, and never while one of its requests is in
\* flight or while it sleeps.
C27_LockOnlyAroundState ==
    /\ STATE_LOCK = "main" <=> clpc \in MainCritical
    /\ STATE_LOCK = "hb" <=> hbpc \in HbCritical
    /\ clpc \in MainBlocked => STATE_LOCK # "main"
    /\ hbpc \in HbBlocked => STATE_LOCK # "hb"

\* C27 witness: the heartbeat thread holds the lock while the control loop
\* waits for /generate, and the control loop's state is not locked by it.
C27_Witness == clpc = "gen_wait" /\ STATE_LOCK = "hb" /\ hbpc = "hb_r1"

\* C28: a step that moves the heartbeat thread or changes one of its locals
\* leaves status and current_job_id as they are.
C28_HeartbeatNeverWrites ==
    [][(hbpc' # hbpc \/ hbLocals' # hbLocals) =>
            (status' = status /\ current_job_id' = current_job_id)]_vars

\* C28 witness: the heartbeat thread sleeps after a request that raised,
\* while the state is busy with job 2.
C28_Witness ==
    /\ hbpc = "hb_sleep" /\ hbLast = "other_exc"
    /\ status = "busy" /\ current_job_id = 2

\* The answer of /generate for the exception that was raised, kind by kind.
FailureMapped ==
    (gen_pc = "returned" /\ gen_exc # NoExc) =>
        /\ gen_result.status = "failed"
        /\ IsMediaError(gen_exc) =>
              /\ gen_result.status_code = 422
              /\ gen_result.error_type = "media_error"
              /\ gen_result.stage = gen_exc.stage
              /\ gen_result.retryable = FALSE
        /\ gen_exc.kind = "ProcessingError" =>
              /\ gen_result.status_code = 500
              /\ gen_result.error_type = "processing_error"
              /\ gen_result.stage = gen_exc.stage
              /\ gen_result.stack_trace
              /\ gen_result.retryable = gen_exc.retryable
        /\ gen_exc.kind = "Exception" =>
              /\ gen_result.status_code = 500
              /\ gen_result.error_type = "unknown_error"
              /\ gen_result.stage = "unknown"
              /\ gen_result.retryable = FALSE

\* C29 as stated: every failure is mapped to a structured body by the kind of
\* the exception, and no exception escapes the endpoint.
C29_AsStated ==
    /\ FailureMapped
    /\ gen_pc # "escaped"

\* C29 as amended: every exception raised by a stage is mapped to a
\* structured body by its kind and none of them escapes; the only exception
\* that escapes is one the startup check raises that is not an ImportError,
\* before any stage has started.
C29_FailureMapping ==
    /\ FailureMapped
    /\ (gen_exc # NoExc /\ gen_started # <<>>) => gen_pc \in {"raised", "returned"}
    /\ gen_pc = "escaped" => (gen_started = <<>> /\ gen_check = "os_error")

\* C29 witness: the answer to a retryable processing error of the inference.
C29_Witness ==
    /\ gen_pc = "returned" /\ gen_exc = ProcessingErrorAt("inference", TRUE)
    /\ gen_result.status_code = 500 /\ gen_result.error_type = "processing_error"
    /\ gen_result.retryable

\* The stages of /generate in the order of the code.
StageOrder == <<"download", "validation", "inference", "upload">>

\* The stages are started in order, each after the ones before it were
\* completed, and none is started after an exception.
StagesInOrder ==
    /\ [](/\ IsPrefix(gen_started, StageOrder)
          /\ \A i \in 1..Len(gen_started) - 1 : gen_started[i] \in stage_times
          /\ (gen_exc # NoExc /\ gen_started # <<>>) =>
                gen_started[Len(gen_started)] \notin stage_times)
    /\ [][(gen_pc \in {"raised", "returned", "escaped"}) =>
              (gen_started' = gen_started)]_vars

\* C30 as stated: the stages run in order, none is started after a failure,
\* and the stage named in the failure body is the stage that failed.
C30_AsStated ==
    /\ IsPrefix(gen_started, StageOrder)
    /\ (gen_pc = "returned" /\ gen_result.status = "failed") =>
            /\ gen_result.stage = gen_started[Len(gen_started)]
            /\ stage_times = {gen_started[i] : i \in 1..Len(gen_started) - 1}

\* C30 as amended: the stages run in order and none is started after a
\* failure; the stage named in the failure body is the stage attribute of
\* the exception: the stage that failed for a download error, a validation
\* error and a processing error of inference or upload, "postprocessing" for
\* a missing output file of the inference stage, and "unknown" for any other
\* exception, whatever stage raised it.
C30_StageOrder ==
    /\ StagesInOrder
    /\ []((gen_pc = "returned" /\ gen_result.status = "failed") =>
            /\ gen_result.stage \in
                   {gen_started[Len(gen_started)], "postprocessing", "unknown"}
            /\ gen_result.stage = "unknown" <=> gen_exc.kind = "Exception"
            /\ gen_result.stage = "postprocessing" =>
                   gen_started[Len(gen_started)] = "inference"
            /\ gen_exc = DownloadError =>
                   (gen_result.stage = "download" /\ gen_started = <<"download">>)
            /\ gen_exc = MediaErrorAt("validation") =>
                   /\ gen_result.stage = "validation"
                   /\ gen_started = <<"download", "validation">>)

\* C30 witness: a failed validation has been answered.
C30_Witness ==
    /\ gen_pc = "returned" /\ gen_exc = MediaErrorAt("validation")
    /\ gen_started = <<"download", "validation">>
    /\ gen_result.stage = "validation" /\ stage_times = {"download"}

\* The "inferring" updates sent so far, in order.
Inferring == SelectSeq(par_sent, LAMBDA u : u.phase = "inferring")

\* C31: every PROGRESS_FRAMES update sent lies in [0.1, 0.9] and is at least
\* 0.05 above the one sent before it (above 0.0 for the first), so the sent
\* fractions strictly increase; an "encoding" update is never below an
\* update sent before it.
C31_ThrottledMonotonic ==
    /\ \A i \in 1..Len(Inferring) :
        /\ Inferring[i].progress >= 100 /\ Inferring[i].progress <= 900
        /\ Inferring[i].progress >=
               (IF i = 1 THEN 0 ELSE Inferring[i - 1].progress) + 50
    /\ \A i, j \in 1..Len(par_sent) :
        (i < j /\ par_sent[j].phase = "encoding") =>
            par_sent[j].progress >= par_sent[i].progress

\* C31 witness: two PROGRESS_FRAMES updates were sent, a count in between was
\* suppressed, and the encoding update followed.
C31_Witness ==
    /\ par_pc = "done" /\ Len(Inferring) = 2 /\ par_lines = 4
    /\ Len(par_sent) = 3 /\ par_sent[3].phase = "encoding"

\* The call has ended.
DlEnded == dl_pc \in {"returned", "raised"}

\* The sleeps between attempts: min(2^(k-1), 10) after the k-th attempt,
\* each after an attempt that ended in a timeout or another retried request
\* error, and none after the last attempt made.
DlSleepsAsClaimed ==
    /\ \A k \in 1..Len(dl_sleeps) :
        /\ dl_sleeps[k] = (IF Pow2(k - 1) < 10 THEN Pow2(k - 1) ELSE 10)
        /\ dl_fails[k] \in Retried
    /\ Len(dl_sleeps) = IF dl_pc = "sleep" THEN dl_attempt
                        ELSE IF dl_attempt = 0 THEN 0 ELSE dl_attempt - 1

\* An empty download or a RemoteProtocolError ends the call at once, the
\* latter through one curl run; curl runs for nothing else.
DlEndsAtOnce ==
    /\ (dl_fails # <<>> /\ dl_fails[Len(dl_fails)] = "empty") =>
            dl_pc = "raised" /\ dl_raised = "DownloadError" /\ dl_curls = 0
    /\ (dl_fails # <<>> /\ dl_fails[Len(dl_fails)] = "RemoteProtocolError") =>
            /\ dl_pc \in {"curl", "returned", "raised"}
            /\ dl_curls = IF dl_pc = "curl" THEN 0 ELSE 1
            /\ dl_pc = "raised" => dl_raised = "DownloadError"
    /\ dl_curls <= 1
    /\ dl_curls = 1 => dl_fails[Len(dl_fails)] = "RemoteProtocolError"

\* C32 as stated: at most max_retries attempts, the sleeps as claimed, an
\* empty download or a RemoteProtocolError ends the call at once, and when
\* the last attempt fails the call raises DownloadError.
C32_AsStated ==
    /\ dl_attempt <= max_retries /\ Len(dl_fails) <= dl_attempt
    /\ DlSleepsAsClaimed
    /\ DlEndsAtOnce
    /\ (DlEnded /\ dl_attempt = max_retries /\ Len(dl_fails) = dl_attempt) =>
            dl_raised = "DownloadError"

\* C32 as amended: when the last attempt fails with a timeout, a status
\* error or another request error the call raises DownloadError; an
\* exception that is none of these (an OSError of mkstemp or of the write)
\* leaves the call as it is, at once, on whichever attempt it occurs.
C32_BoundedDownload ==
    /\ dl_attempt <= max_retries /\ Len(dl_fails) <= dl_attempt
    /\ DlSleepsAsClaimed
    /\ DlEndsAtOnce
    /\ (/\ DlEnded /\ dl_attempt = max_retries /\ dl_fails # <<>>
        /\ Len(dl_fails) = dl_attempt /\ dl_fails[Len(dl_fails)] \in Retried) =>
            dl_raised = "DownloadError"
    /\ (dl_fails # <<>> /\ dl_fails[Len(dl_fails)] = "OSError") =>
            dl_pc = "raised" /\ dl_raised = "OSError"
    /\ dl_raised \in {"none", "DownloadError", "OSError"}

\* C32 witness: with max_retries = 6 every attempt failed with a retried
\* error, the sleeps were 1, 2, 4, 8 and 10 seconds, and DownloadError was
\* raised.
C32_Witness ==
    /\ dl_pc = "raised" /\ max_retries = 6 /\ dl_attempt = 6
    /\ dl_sleeps = <<1, 2, 4, 8, 10>> /\ dl_raised = "DownloadError"
    /\ dl_fails[6] = "TimeoutException"

\* The input files whose download completed: _download_to_temp returned
\* their path.
Downloaded == {video_path, audio_path} \ {"none"}

\* C33 as stated: when /generate returns, on whichever path, no downloaded
\* input temp file is left.
C33_AsStated ==
    gen_pc = "returned" => tmp_files \cap Downloaded = {}

\* C33 as amended: when /generate returns, on whichever path, the removal of
\* every downloaded input temp file has been attempted; a file is left only
\* if os.remove raised OSError for it.  In particular a failure of the
\* second download leaves the first file only in that case.
C33_CleanupAttempted ==
    /\ gen_pc = "returned" => tmp_files = rm_failed /\ rm_failed \subseteq Downloaded
    /\ gen_pc # "returned" => tmp_files = Downloaded /\ rm_failed = {}

\* C33 witness: the second download failed, and the answer is returned with
\* the first downloaded file removed.
C33_Witness ==
    /\ gen_pc = "returned" /\ gen_exc = DownloadError
    /\ video_path = VideoFile /\ audio_path = "none"
    /\ tmp_files = {}

\* The events of one kind in the current iteration of the buffer loop.
BufEvents(kind) == SelectSeq(buf_trace, LAMBDA e : e.ev = kind)

\* The current iteration claimed a job: its claim was answered 2xx with a job.
BufClaimed ==
    /\ buf_job.present
    /\ BufEvents("claim") # <<>> /\ BufEvents("claim")[1].result = "2xx"

\* C34 as stated: for every claimed job exactly one final status report is
\* attempted.
C34_AsStated ==
    (BufClaimed /\ buf_pc = "sleep") => Len(BufEvents("status")) = 1

\* C34 as amended: for every claimed job that holds buffer_job_id and
\* musetalk_job_id, exactly one final status report is attempted, after the
\* /generate call if one was made and never before; it says "succeeded" if
\* and only if /generate answered 2xx, and otherwise "failed" with the
\* error; afterwards status is "idle" whether or not the report raised, and
\* the loop is in its sleep, from which it goes on.  A claimed job without
\* the two ids gets no status report.
C34_OneFinalReport ==
    /\ Len(BufEvents("status")) <= 1 /\ Len(BufEvents("generate")) <= 1
    /\ (BufClaimed /\ buf_pc = "sleep") =>
         IF buf_job.has_ids
           THEN /\ Len(BufEvents("status")) = 1
                /\ buf_trace[Len(buf_trace)].ev = "status"
                /\ buf_trace[Len(buf_trace)].status =
                       (IF buf_gen = "2xx" THEN "succeeded" ELSE "failed")
                /\ buf_trace[Len(buf_trace)].error =
                       (IF buf_gen = "2xx" THEN "none" ELSE buf_gen)
                /\ buf_status = "idle"
           ELSE BufEvents("status") = <<>> /\ last_error = "KeyError"
    /\ (BufEvents("status") # <<>>) =>
            /\ buf_pc = "sleep" /\ buf_status = "idle" /\ buf_gen # "none"
            /\ BufClaimed /\ buf_job.has_ids
    /\ buf_pc \in {"gen_wait"} => BufEvents("status") = <<>>

\* C34 witness: /generate answered 2xx, the "succeeded" report raised, and
\* the loop is idle in its sleep.
C34_Witness ==
    /\ buf_pc = "sleep" /\ buf_gen = "2xx" /\ buf_status = "idle"
    /\ buf_trace[Len(buf_trace)] = BufEvent("status", "succeeded", "none", "ConnectError")

\* C38: every heartbeat of the buffer loop is the first request of its
\* iteration, so none lies between a claim and the job's final status
\* report, and every heartbeat carries status "idle"; "busy" is held only
\* between the start of a job and its final report.
C38_HeartbeatsIdleAndFirst ==
    /\ \A i \in 1..Len(buf_trace) :
        buf_trace[i].ev = "heartbeat" => i = 1 /\ buf_trace[i].status = "idle"
    /\ buf_pc = "heartbeat" => buf_status = "idle" /\ buf_trace = <<>>
    /\ buf_status = "busy" <=> buf_pc \in {"gen_wait", "report"}

\* C38 witness: a job has been run and reported, and the next iteration's
\* heartbeat has gone out with status "idle".
C38_Witness ==
    /\ buf_pc = "claim" /\ buf_gen = "2xx" /\ job_ok
    /\ buf_trace = <<BufEvent("heartbeat", "idle", "none", "2xx")>>

\* C39: a claim is sent only after the heartbeat of the same iteration was
\* answered 2xx; a heartbeat that raised or was rejected is the only request
\* of its iteration, its error is in last_error, and the loop sleeps; from
\* the sleep the loop goes to the next heartbeat.
C39_ClaimOnlyAfterHeartbeat ==
    /\ [](/\ \A i \in 1..Len(buf_trace) :
               buf_trace[i].ev = "claim" =>
                   /\ i = 2
                   /\ buf_trace[1].ev = "heartbeat" /\ buf_trace[1].result = "2xx"
          /\ (buf_trace # <<>> /\ buf_trace[1].result # "2xx") =>
               /\ Len(buf_trace) = 1
               /\ buf_pc = "sleep"
               /\ last_error = buf_trace[1].result)
    /\ [][buf_pc = "sleep" => buf_pc' = "heartbeat" /\ buf_trace' = <<>>]_vars

\* C39 witness: the heartbeat was rejected, no claim was sent, and the loop
\* sleeps with the error recorded.
C39_Witness ==
    /\ buf_pc = "sleep" /\ last_error = "HTTPStatusError"
    /\ buf_trace = <<BufEvent("heartbeat", "idle", "none", "HTTPStatusError")>>

\* The outer handler of main and its sleep.
OuterPcs == {"outer_except", "outer_w1", "outer_w2", "outer_unlock", "outer_sleep"}

\* C35: while a job is processed and its idle write is made the control loop
\* does not sleep; from the idle write it goes to the top of the inner loop
\* and from there into claim_job, with no sleep; a sleep of POLL_INTERVAL is
\* made only in the no-job branch, where the claim returned no job, and in
\* the outer handler, which is entered only for a job that was not processed.
C35_NextClaimAtOnce ==
    /\ [](/\ clpc \in ProcessingPcs \cup AfterJobPcs \cup {"loop_top", "claim_send"} =>
                clSleep = 0
          /\ clSleep = POLL_INTERVAL <=> clpc \in {"poll_sleep", "outer_sleep"}
          /\ clpc = "poll_sleep" => ~job.present
          /\ clpc \in OuterPcs => (job.present /\ ~job.has_id /\ trace = <<>>))
    /\ [][/\ (clpc \in AfterJobPcs /\ clpc' \notin AfterJobPcs) => clpc' = "loop_top"
          /\ (clpc = "loop_top" /\ clpc' # "loop_top") => clpc' = "claim_send"
          /\ (clpc = "claim_send" /\ clpc' # "claim_send") =>
                (clpc' = "claim_wait" /\ claimPosts' = claimPosts + 1)]_vars

\* C35 witness: the claim request that follows a processed job is out, and
\* no sleep was made.
C35_Witness ==
    /\ clpc = "claim_wait" /\ claimPosts = 1 /\ clSleep = 0
    /\ job.present /\ job.has_id /\ inFlight = {}

\* The heartbeat thread is between the end of a sleep (or the creation of a
\* client) and the end of its request.
HbAttemptPcs == {"hb_lock", "hb_r1", "hb_r2", "hb_unlock", "hb_send", "hb_wait"}

RECURSIVE SeqSum(_)
SeqSum(q) == IF q = <<>> THEN 0 ELSE q[1] + SeqSum(Tail(q))

\* All the attempts of the last claim_job call raised.
ClaimExhausted == claimPosts = MaxAttempts /\ claimLast \in ClaimExceptions

\* C37: an attempt of claim_job that raised is followed by its backoff
\* sleep, the last attempt included; when all three attempts raised,
\* claim_job has slept 1, 2 and 4 seconds (7 in all) before it returns
\* None, and main then sleeps POLL_INTERVAL before the next claim.
C37_BackoffThenPollSleep ==
    /\ [](/\ (clpc \in NoJobPcs /\ ClaimExhausted) =>
                /\ claimSleeps = <<1, 2, 4>> /\ SeqSum(claimSleeps) = 7
                /\ ~job.present
          /\ (clpc = "poll_sleep" /\ ClaimExhausted) => clSleep = POLL_INTERVAL
          /\ (clpc = "claim_backoff" /\ claimPosts = MaxAttempts) => clSleep = 4)
    /\ [][/\ (clpc = "claim_wait" /\ claimLast' \in ClaimExceptions
              /\ clpc' # "claim_wait") =>
                /\ clpc' = "claim_backoff"
                /\ clSleep' = 2 ^ (claimPosts - 1)
                /\ claimSleeps' = Append(claimSleeps, clSleep')
          /\ (clpc = "claim_backoff" /\ claimPosts = MaxAttempts
              /\ clpc' # "claim_backoff") => clpc' = "nojob_lock"
          /\ (clpc \in NoJobPcs /\ clpc' \notin NoJobPcs) =>
                (clpc = "poll_sleep" /\ clpc' = "loop_top")]_vars

\* C37 witness: three attempts raised, the three backoff sleeps were made,
\* and the control loop is in the poll sleep that follows.
C37_Witness ==
    /\ clpc = "poll_sleep" /\ clSleep = POLL_INTERVAL
    /\ ClaimExhausted /\ claimSleeps = <<1, 2, 4>>

\* C40: the supervisor loop ends only at the check at the top of an
\* iteration, with exit status 1, and only when the app process has exited;
\* that check ends the loop whenever the app process has exited, and nothing
\* is sent afterwards.  With the app alive, no outcome of the heartbeat, of
\* the claim or of the /generate call ends the loop: each is followed by the
\* next step of the iteration.
C40_ExitOnlyWhenAppDied ==
    /\ [](/\ sup_pc = "exited" <=> sup_exit # Running
          /\ sup_pc = "exited" => sup_exit = 1 /\ ~app_alive)
    /\ [][/\ (sup_pc = "check" /\ ~app_alive /\ sup_pc' # sup_pc) =>
                (sup_pc' = "exited" /\ sup_exit' = 1 /\ sup_trace' = sup_trace)
          /\ (sup_pc # "exited" /\ sup_pc' = "exited") => sup_pc = "check"
          /\ sup_pc = "exited" => (sup_pc' = "exited" /\ sup_trace' = sup_trace)
          /\ sup_trace' # sup_trace =>
                (sup_trace' = <<>> \/ sup_pc \in {"heartbeat", "claim", "generate"})
          /\ (sup_pc = "heartbeat" /\ sup_pc' # sup_pc) => sup_pc' = "claim"
          /\ (sup_pc = "claim" /\ sup_pc' # sup_pc) => sup_pc' \in {"generate", "sleep"}
          /\ (sup_pc = "generate" /\ sup_pc' # sup_pc) => sup_pc' = "sleep"
          /\ (sup_pc = "sleep" /\ sup_pc' # sup_pc) => sup_pc' = "check"]_vars

\* C40 witness: the app process exited while a job was being sent to it,
\* the /generate call failed, the iteration went on to its sleep, and the
\* check of the next iteration ended the supervisor with status 1.
C40_Witness ==
    /\ sup_pc = "exited" /\ sup_exit = 1 /\ ~app_alive
    /\ Len(sup_trace) = 3 /\ sup_trace[3] = SupEvent("generate", "ConnectError")
    /\ sup_trace[1].result = "ConnectError"

====
